---------------------------- MODULE Spec2Model ----------------------------
(***************************************************************************)
(* A model of the single-node text search engine of the repository:        *)
(*   - the two-pointer merges over sorted document-id lists                *)
(*     (src/lab1/5_A_1.py, src/lab1/5_A_2.py),                             *)
(*   - the skip-pointer accelerated intersection (src/lab1/5_A_4.py),      *)
(*   - the front-coding codec of the dictionary (src/4_2_1.py),            *)
(*   - the index and dictionary builders (src/lab1/3.py),                  *)
(*   - the phrase searches (src/lab1/5_A_3.py),                            *)
(*   - the Boolean query strategies and entry points                       *)
(*     (src/lab1/5_A_1.py, src/lab1/5_A_2.py),                             *)
(*   - the vector-space ranker (src/lab1/5_B.py),                          *)
(*   - the blocking codec (src/4_2_2.py) and the front-coded loader        *)
(*     (src/lab1/5_A_2.py) over stored dictionary files.                   *)
(* Python lists are sequences; Python's 0-based cursors i, j are kept      *)
(* 0-based, so the element a cursor i designates is list[i + 1].           *)
(***************************************************************************)
EXTENDS Integers, Sequences, FiniteSets, TLC

(***************************************************************************)
(* Bounds of the model.                                                    *)
(***************************************************************************)
MaxDocId == 5        \* document ids of the merge inputs are drawn from 1..MaxDocId
MaxSkipStep == 3     \* explicit skip steps are drawn from 1..MaxSkipStep

MaxTermLen == 2      \* dictionary terms have at most MaxTermLen characters
MaxTerms == 3        \* a dictionary holds at most MaxTerms terms
MaxBlockSize == 3    \* block sizes of the codecs are drawn from 1..MaxBlockSize
MaxDocs == 2         \* a generic corpus holds the documents D1 .. D<MaxDocs>
MaxWords == 3        \* a generic document holds at most MaxWords tokens
MaxPhraseLen == 3    \* a phrase query holds at most MaxPhraseLen terms
MaxReaderDocId == 3  \* the lists shared by two readers hold ids from 1..MaxReaderDocId
MaxTopN == 2         \* the cutoff of a ranking is drawn from 0..MaxTopN
MaxQueryLen == 2     \* a ranked query holds at most MaxQueryLen terms
MaxBlockTerms == 5   \* a dictionary of the blocking script holds at most MaxBlockTerms terms
MaxListLen == 100    \* the posting lists handed to the skip-pointer builders have up to MaxListLen ids

VARIABLES
    p1, p2,                 \* the two sorted document-id lists handed to a merge
    skip_idx1, skip_idx2,   \* the SkipListIndex objects built over p1 and p2
    answer,                 \* the last call: [op |-> name, val |-> returned list]
    d,                      \* dictionary.json: term -> [offset, length]
    block_size,             \* the block_size argument of the codec
    fc_file,                \* dictionary_frontcoded.bin: a sequence of bytes
    fc_result,              \* what front_coding_decode returned
    tokenized_dir,          \* the directory: entry id -> [txt, words]
    files,                  \* the .txt entries in the order os.listdir gave them
    nread,                  \* how many entries of files the read loop has processed
    inverted_index,         \* the accumulator: term -> doc -> positions, in insertion order
    sorted_inverted_index,  \* what build_inverted_index returned (inverted_index.json)
    dictionary,             \* what build_dictionary wrote (dictionary.json)
    postings,               \* what load_postings returned: term -> sorted doc ids
    index,                  \* the loaded inverted_index.json: term -> doc -> positions
    readers,                \* reader id -> the frame of the merge that reader is running
    doc_vectors,            \* doc id -> {term: weight}, both in insertion order
    query_vector,           \* {term: weight} of the query
    top_n,                  \* the cutoff handed to vector_space_retrieval
    doc_lengths,            \* doc id -> number of tokens, in insertion order
    block_file,             \* dictionary_blocking.bin: a sequence of bytes
    groups,                 \* what blocking_decompressed returned
    fc_postings,            \* what load_frontcoded_index returned
    pc                      \* the next step of the script being run

mergeVars == <<p1, p2, skip_idx1, skip_idx2, answer>>
codecVars == <<d, block_size, fc_file, fc_result>>
indexVars == <<tokenized_dir, files, nread, inverted_index, sorted_inverted_index,
               dictionary>>
searchVars == <<postings, index>>
readerVars == <<readers>>
rankVars == <<doc_vectors, query_vector, top_n, doc_lengths>>
blockVars == <<block_file, groups, fc_postings>>
vars == <<p1, p2, skip_idx1, skip_idx2, answer, d, block_size, fc_file, fc_result,
          tokenized_dir, files, nread, inverted_index, sorted_inverted_index,
          dictionary, postings, index, readers, doc_vectors, query_vector, top_n,
          doc_lengths,
          block_file, groups, fc_postings, pc>>

(***************************************************************************)
(* Generic helpers.                                                        *)
(***************************************************************************)
Min(a, b) == IF a <= b THEN a ELSE b
Max(a, b) == IF a >= b THEN a ELSE b
Range(s) == {s[k] : k \in 1..Len(s)}
IsStrictlyIncreasing(s) == \A k \in 1..(Len(s) - 1) : s[k] < s[k + 1]

\* Python's s[i:] for a 0-based start i.
Tail0(s, i) == SubSeq(s, i + 1, Len(s))

\* The strictly increasing list holding exactly the elements of the set S.
RECURSIVE SortedSeq(_)
SortedSeq(S) ==
    IF S = {} THEN <<>>
    ELSE LET m == CHOOSE x \in S : \A y \in S : x <= y
         IN <<m>> \o SortedSeq(S \ {m})

\* int(math.sqrt(n)) / int(n ** 0.5) for the small non-negative n of the model.
ISqrt(n) == CHOOSE r \in 0..n : r * r <= n /\ (r + 1) * (r + 1) > n

None == [none |-> TRUE]
NoAnswer == [op |-> "none", val |-> <<>>]

(***************************************************************************)
(* src/lab1/5_A_1.py: intersect, union, difference.                        *)
(***************************************************************************)
\* A sweep that advances the wrong cursor when l1's value is the smaller one.
RECURSIVE intersect_loop_wrong_cursor(_, _, _, _, _)
intersect_loop_wrong_cursor(l1, l2, i, j, acc) ==
    IF i < Len(l1) /\ j < Len(l2)
    THEN IF l1[i + 1] = l2[j + 1]
         THEN intersect_loop_wrong_cursor(l1, l2, i + 1, j + 1, Append(acc, l1[i + 1]))
         ELSE IF l1[i + 1] < l2[j + 1]
              THEN intersect_loop_wrong_cursor(l1, l2, i, j + 1, acc)
              ELSE intersect_loop_wrong_cursor(l1, l2, i + 1, j, acc)
    ELSE acc

RECURSIVE intersect_loop(_, _, _, _, _)
intersect_loop(l1, l2, i, j, acc) ==
    IF i < Len(l1) /\ j < Len(l2)
    THEN IF l1[i + 1] = l2[j + 1]
         THEN intersect_loop(l1, l2, i + 1, j + 1, Append(acc, l1[i + 1]))
         ELSE IF l1[i + 1] < l2[j + 1]
              THEN intersect_loop(l1, l2, i + 1, j, acc)
              ELSE intersect_loop(l1, l2, i, j + 1, acc)
    ELSE acc

intersect(l1, l2) == intersect_loop(l1, l2, 0, 0, <<>>)

\* A union that forgets the tail of the second list.
RECURSIVE union_loop_no_tail2(_, _, _, _, _)
union_loop_no_tail2(l1, l2, i, j, acc) ==
    IF i < Len(l1) /\ j < Len(l2)
    THEN IF l1[i + 1] = l2[j + 1]
         THEN union_loop_no_tail2(l1, l2, i + 1, j + 1, Append(acc, l1[i + 1]))
         ELSE IF l1[i + 1] < l2[j + 1]
              THEN union_loop_no_tail2(l1, l2, i + 1, j, Append(acc, l1[i + 1]))
              ELSE union_loop_no_tail2(l1, l2, i, j + 1, Append(acc, l2[j + 1]))
    ELSE acc \o Tail0(l1, i)

RECURSIVE union_loop(_, _, _, _, _)
union_loop(l1, l2, i, j, acc) ==
    IF i < Len(l1) /\ j < Len(l2)
    THEN IF l1[i + 1] = l2[j + 1]
         THEN union_loop(l1, l2, i + 1, j + 1, Append(acc, l1[i + 1]))
         ELSE IF l1[i + 1] < l2[j + 1]
              THEN union_loop(l1, l2, i + 1, j, Append(acc, l1[i + 1]))
              ELSE union_loop(l1, l2, i, j + 1, Append(acc, l2[j + 1]))
    ELSE (acc \o Tail0(l1, i)) \o Tail0(l2, j)

union(l1, l2) == union_loop(l1, l2, 0, 0, <<>>)

\* A difference that forgets the tail of p1 left after p2 is exhausted.
RECURSIVE difference_loop_no_tail(_, _, _, _, _)
difference_loop_no_tail(l1, l2, i, j, acc) ==
    IF i < Len(l1) /\ j < Len(l2)
    THEN IF l1[i + 1] = l2[j + 1]
         THEN difference_loop_no_tail(l1, l2, i + 1, j + 1, acc)
         ELSE IF l1[i + 1] < l2[j + 1]
              THEN difference_loop_no_tail(l1, l2, i + 1, j, Append(acc, l1[i + 1]))
              ELSE difference_loop_no_tail(l1, l2, i, j + 1, acc)
    ELSE acc

RECURSIVE difference_loop(_, _, _, _, _)
difference_loop(l1, l2, i, j, acc) ==
    IF i < Len(l1) /\ j < Len(l2)
    THEN IF l1[i + 1] = l2[j + 1]
         THEN difference_loop(l1, l2, i + 1, j + 1, acc)
         ELSE IF l1[i + 1] < l2[j + 1]
              THEN difference_loop(l1, l2, i + 1, j, Append(acc, l1[i + 1]))
              ELSE difference_loop(l1, l2, i, j + 1, acc)
    ELSE acc \o Tail0(l1, i)

difference(l1, l2) == difference_loop(l1, l2, 0, 0, <<>>)

(***************************************************************************)
(* src/lab1/5_A_4.py: SkipListIndex, build_skip_indexes and the two        *)
(* intersections of the skip-step experiment.                              *)
(***************************************************************************)
\* The skip_pointers dict of SkipListIndex.__init__: {source index: target index}.
SkipPointers(doc_ids, skip_step) ==
    LET n == Len(doc_ids)
        starts == {i \in 0..(n - 1) : i % skip_step = 0}
    IN [i \in {s \in starts : Min(s + skip_step, n - 1) > s}
            |-> Min(i + skip_step, n - 1)]

SkipListIndex(term, doc_ids, skip_step) ==
    [term |-> term, doc_ids |-> doc_ids, skip_step |-> skip_step,
     skip_pointers |-> SkipPointers(doc_ids, skip_step)]

SkipStrategies == {"sqrt", "div10", "fixed50", "fixed200", "other"}

\* The step build_skip_indexes derives from the strategy and the list length.
StrategyStep(skip_strategy, n) ==
    CASE skip_strategy = "sqrt" -> Max(1, ISqrt(n))
      [] skip_strategy = "div10" -> Max(1, n \div 10)
      [] skip_strategy = "fixed50" -> 50
      [] skip_strategy = "fixed200" -> 200
      [] OTHER -> Max(1, ISqrt(n))

\* The skipping sweep without its two `continue` statements: after a jump
\* the cursor is also stepped by one.
RECURSIVE skiplist_loop_no_continue(_, _, _, _, _, _, _)
skiplist_loop_no_continue(docs1, docs2, pointers1, pointers2, i, j, result) ==
    IF i < Len(docs1) /\ j < Len(docs2)
    THEN LET doc1 == docs1[i + 1]
             doc2 == docs2[j + 1]
         IN IF doc1 = doc2
            THEN skiplist_loop_no_continue(docs1, docs2, pointers1, pointers2,
                                           i + 1, j + 1, Append(result, doc1))
            ELSE IF doc1 < doc2
                 THEN IF i \in DOMAIN pointers1 /\ docs1[pointers1[i] + 1] <= doc2
                      THEN skiplist_loop_no_continue(docs1, docs2, pointers1, pointers2,
                                                     pointers1[i] + 1, j, result)
                      ELSE skiplist_loop_no_continue(docs1, docs2, pointers1, pointers2,
                                                     i + 1, j, result)
                 ELSE IF j \in DOMAIN pointers2 /\ docs2[pointers2[j] + 1] <= doc1
                      THEN skiplist_loop_no_continue(docs1, docs2, pointers1, pointers2,
                                                     i, pointers2[j] + 1, result)
                      ELSE skiplist_loop_no_continue(docs1, docs2, pointers1, pointers2,
                                                     i, j + 1, result)
    ELSE result

RECURSIVE skiplist_loop(_, _, _, _, _, _, _)
skiplist_loop(docs1, docs2, pointers1, pointers2, i, j, result) ==
    IF i < Len(docs1) /\ j < Len(docs2)
    THEN LET doc1 == docs1[i + 1]
             doc2 == docs2[j + 1]
         IN IF doc1 = doc2
            THEN skiplist_loop(docs1, docs2, pointers1, pointers2,
                               i + 1, j + 1, Append(result, doc1))
            ELSE IF doc1 < doc2
                 THEN IF i \in DOMAIN pointers1 /\ docs1[pointers1[i] + 1] <= doc2
                      THEN skiplist_loop(docs1, docs2, pointers1, pointers2,
                                         pointers1[i], j, result)
                      ELSE skiplist_loop(docs1, docs2, pointers1, pointers2,
                                         i + 1, j, result)
                 ELSE IF j \in DOMAIN pointers2 /\ docs2[pointers2[j] + 1] <= doc1
                      THEN skiplist_loop(docs1, docs2, pointers1, pointers2,
                                         i, pointers2[j], result)
                      ELSE skiplist_loop(docs1, docs2, pointers1, pointers2,
                                         i, j + 1, result)
    ELSE result

intersect_with_skiplist(idx1, idx2) ==
    skiplist_loop(idx1.doc_ids, idx2.doc_ids,
                  idx1.skip_pointers, idx2.skip_pointers, 0, 0, <<>>)

RECURSIVE noskip_loop(_, _, _, _, _)
noskip_loop(doc_ids1, doc_ids2, i, j, result) ==
    IF i < Len(doc_ids1) /\ j < Len(doc_ids2)
    THEN IF doc_ids1[i + 1] = doc_ids2[j + 1]
         THEN noskip_loop(doc_ids1, doc_ids2, i + 1, j + 1,
                          Append(result, doc_ids1[i + 1]))
         ELSE IF doc_ids1[i + 1] < doc_ids2[j + 1]
              THEN noskip_loop(doc_ids1, doc_ids2, i + 1, j, result)
              ELSE noskip_loop(doc_ids1, doc_ids2, i, j + 1, result)
    ELSE result

intersect_without_skiplist(doc_ids1, doc_ids2) ==
    noskip_loop(doc_ids1, doc_ids2, 0, 0, <<>>)

(***************************************************************************)
(* The merge experiments as state machines.  The inputs are any two        *)
(* strictly increasing document-id lists (load_postings and                *)
(* build_skip_indexes sort the ids of a term, which are distinct).         *)
(***************************************************************************)
PostingLists == {SortedSeq(S) : S \in SUBSET (1..MaxDocId)}

IdleMerge ==
    /\ p1 = <<>>
    /\ p2 = <<>>
    /\ skip_idx1 = None
    /\ skip_idx2 = None
    /\ answer = NoAnswer

IdleCodec ==
    /\ d = <<>>
    /\ block_size = 0
    /\ fc_file = <<>>
    /\ fc_result = None

IdleIndex ==
    /\ tokenized_dir = <<>>
    /\ files = <<>>
    /\ nread = 0
    /\ inverted_index = <<>>
    /\ sorted_inverted_index = <<>>
    /\ dictionary = <<>>

IdleSearch ==
    /\ postings = <<>>
    /\ index = <<>>

IdleReaders == readers = <<>>

IdleRank ==
    /\ doc_vectors = <<>>
    /\ query_vector = <<>>
    /\ top_n = 0
    /\ doc_lengths = <<>>

IdleBlock ==
    /\ block_file = <<>>
    /\ groups = None
    /\ fc_postings = None

InitMerge ==
    /\ p1 \in PostingLists
    /\ p2 \in PostingLists
    /\ skip_idx1 = None
    /\ skip_idx2 = None
    /\ answer = NoAnswer
    /\ pc = "query"
    /\ IdleCodec
    /\ IdleIndex
    /\ IdleSearch
    /\ IdleReaders
    /\ IdleRank
    /\ IdleBlock

CallIntersect ==
    /\ answer' = [op |-> "intersect", val |-> intersect(p1, p2)]
    /\ UNCHANGED <<readerVars, rankVars, blockVars, p1, p2, skip_idx1, skip_idx2, pc, codecVars, indexVars, searchVars>>

CallUnion ==
    /\ answer' = [op |-> "union", val |-> union(p1, p2)]
    /\ UNCHANGED <<readerVars, rankVars, blockVars, p1, p2, skip_idx1, skip_idx2, pc, codecVars, indexVars, searchVars>>

CallDifference ==
    /\ answer' = [op |-> "difference", val |-> difference(p1, p2)]
    /\ UNCHANGED <<readerVars, rankVars, blockVars, p1, p2, skip_idx1, skip_idx2, pc, codecVars, indexVars, searchVars>>

NextMerge == CallIntersect \/ CallUnion \/ CallDifference

SpecMerge == InitMerge /\ [][NextMerge]_vars

\* build_skip_indexes: one strategy for the whole index, the step per term.
BuildSkipIndexes(skip_strategy) ==
    /\ skip_idx1 = None
    /\ skip_idx1' = SkipListIndex("t1", p1, StrategyStep(skip_strategy, Len(p1)))
    /\ skip_idx2' = SkipListIndex("t2", p2, StrategyStep(skip_strategy, Len(p2)))
    /\ UNCHANGED <<readerVars, rankVars, blockVars, p1, p2, answer, pc, codecVars, indexVars, searchVars>>

\* SkipListIndex(term, doc_ids, skip_step) called with explicit steps.
ConstructSkipLists(s1, s2) ==
    /\ skip_idx1 = None
    /\ skip_idx1' = SkipListIndex("t1", p1, s1)
    /\ skip_idx2' = SkipListIndex("t2", p2, s2)
    /\ UNCHANGED <<readerVars, rankVars, blockVars, p1, p2, answer, pc, codecVars, indexVars, searchVars>>

CallIntersectWithSkiplist ==
    /\ skip_idx1 # None
    /\ answer' = [op |-> "intersect_with_skiplist",
                  val |-> intersect_with_skiplist(skip_idx1, skip_idx2)]
    /\ UNCHANGED <<readerVars, rankVars, blockVars, p1, p2, skip_idx1, skip_idx2, pc, codecVars, indexVars, searchVars>>

CallIntersectWithoutSkiplist ==
    /\ skip_idx1 # None
    /\ answer' = [op |-> "intersect_without_skiplist",
                  val |-> intersect_without_skiplist(skip_idx1.doc_ids,
                                                     skip_idx2.doc_ids)]
    /\ UNCHANGED <<readerVars, rankVars, blockVars, p1, p2, skip_idx1, skip_idx2, pc, codecVars, indexVars, searchVars>>

NextSkip ==
    \/ \E st \in SkipStrategies : BuildSkipIndexes(st)
    \/ \E s1, s2 \in 1..MaxSkipStep : ConstructSkipLists(s1, s2)
    \/ CallIntersectWithSkiplist
    \/ CallIntersectWithoutSkiplist

SpecSkip == InitMerge /\ [][NextSkip]_vars


(***************************************************************************)
(* Properties of the merges.                                               *)
(***************************************************************************)
\* C1: whatever skip steps the two SkipListIndex objects were built with,
\* intersect_with_skiplist returns the same list as intersect_without_skiplist
\* on the same two document-id lists.
C1_SkipIntersectSameAsLinear ==
    answer.op = "intersect_with_skiplist"
        => answer.val = intersect_without_skiplist(p1, p2)

\* A run in which the skipping sweep takes a jump on each side (0 -> 2 in the
\* first list, 0 -> 1 in the second) and still reports the common documents.
C1_Witness ==
    /\ answer.op = "intersect_with_skiplist"
    /\ p1 = <<1, 2, 3, 4, 5>>
    /\ p2 = <<3, 5>>
    /\ skip_idx1.skip_step = 2
    /\ 0 \in DOMAIN skip_idx1.skip_pointers
    /\ answer.val = <<3, 5>>

\* C2: intersect returns the strictly increasing list of exactly the common
\* elements, so it is no longer than the shorter input.
C2_IntersectIsCommonElements ==
    answer.op = "intersect"
        => /\ IsStrictlyIncreasing(answer.val)
           /\ Range(answer.val) = Range(p1) \cap Range(p2)
           /\ Len(answer.val) <= Min(Len(p1), Len(p2))

C2_Witness ==
    /\ answer.op = "intersect"
    /\ Len(answer.val) >= 2
    /\ Len(answer.val) < Min(Len(p1), Len(p2))

\* C3: union returns a strictly increasing list whose elements are exactly
\* those of the two inputs, also when one or both inputs are empty.
C3_UnionIsSortedSetUnion ==
    answer.op = "union"
        => /\ IsStrictlyIncreasing(answer.val)
           /\ Range(answer.val) = Range(p1) \cup Range(p2)

\* Overlapping lists, the second one with a tail past the end of the first.
C3_Witness ==
    /\ answer.op = "union"
    /\ p1 = <<1, 3>>
    /\ p2 = <<2, 3, 4, 5>>
    /\ answer.val = <<1, 2, 3, 4, 5>>

\* One of the lists empty.
C3_WitnessEmpty ==
    /\ answer.op = "union"
    /\ p1 = <<>>
    /\ p2 # <<>>
    /\ answer.val = p2

\* C4: difference(A, B) and intersect(A, B) are disjoint and together hold
\* exactly the elements of A; difference keeps A's order.
C4_DifferenceAndIntersectPartition ==
    answer.op = "difference"
        => /\ Range(answer.val) \cap Range(intersect(p1, p2)) = {}
           /\ Range(answer.val) \cup Range(intersect(p1, p2)) = Range(p1)
           /\ Range(answer.val) = Range(p1) \ Range(p2)
           /\ IsStrictlyIncreasing(answer.val)

\* B is exhausted while A still has a tail, which difference must keep.
C4_Witness ==
    /\ answer.op = "difference"
    /\ p1 = <<1, 2, 4, 5>>
    /\ p2 = <<2, 3>>
    /\ answer.val = <<1, 4, 5>>


(***************************************************************************)
(* Strings and bytes.  A str is its sequence of code points, a bytes       *)
(* object its sequence of byte values.  The characters of the model are    *)
(* 'a' (one UTF-8 byte) and U+00E9 (two UTF-8 bytes), so that character    *)
(* counts and byte counts differ.                                          *)
(***************************************************************************)
Alphabet == {97, 233}

RECURSIVE StrsUpTo(_)
StrsUpTo(n) ==
    IF n = 0 THEN {<<>>}
    ELSE LET shorter == StrsUpTo(n - 1)
         IN shorter \cup {Append(t, c) : t \in shorter, c \in Alphabet}

Terms == StrsUpTo(MaxTermLen)

\* Python's str ordering: lexicographic by code point, a proper prefix first.
StrLess(a, b) ==
    \E k \in 1..Len(b) :
        /\ \A m \in 1..(k - 1) : m <= Len(a) /\ a[m] = b[m]
        /\ (k > Len(a) \/ a[k] < b[k])

\* sorted(d.keys()) for a set of distinct strings.
RECURSIVE SortedStrs(_)
SortedStrs(S) ==
    IF S = {} THEN <<>>
    ELSE LET m == CHOOSE x \in S : \A y \in S \ {x} : StrLess(x, y)
         IN <<m>> \o SortedStrs(S \ {m})

\* str.encode("utf-8") for code points below U+0800.
RECURSIVE Utf8Encode(_)
Utf8Encode(str) ==
    IF str = <<>> THEN <<>>
    ELSE IF Len(str) = 1
         THEN LET c == str[1]
              IN IF c < 128 THEN <<c>>
                 ELSE <<192 + (c \div 64), 128 + (c % 64)>>
    ELSE LET h == Len(str) \div 2
         IN Utf8Encode(SubSeq(str, 1, h)) \o Utf8Encode(SubSeq(str, h + 1, Len(str)))

\* Whether bytes.decode("utf-8") accepts the bytes (one- and two-byte forms).
RECURSIVE Utf8Valid(_)
Utf8Valid(bytes) ==
    IF bytes = <<>> THEN TRUE
    ELSE LET b == Head(bytes)
         IN IF b < 128 THEN Utf8Valid(Tail(bytes))
            ELSE IF b >= 194 /\ b < 224 /\ Len(bytes) >= 2
                    /\ bytes[2] >= 128 /\ bytes[2] < 192
                 THEN Utf8Valid(SubSeq(bytes, 3, Len(bytes)))
                 ELSE FALSE

\* bytes.decode("utf-8") of valid bytes.
RECURSIVE Utf8Decode(_)
Utf8Decode(bytes) ==
    IF bytes = <<>> THEN <<>>
    ELSE LET b == Head(bytes)
         IN IF b < 128 THEN <<b>> \o Utf8Decode(Tail(bytes))
            ELSE <<(b - 192) * 64 + (bytes[2] - 128)>>
                     \o Utf8Decode(SubSeq(bytes, 3, Len(bytes)))

\* Whether x fits an unsigned 32-bit field: 0 <= x < 2^32 (65536 * 65536).
FitsU32(x) == x >= 0 /\ (x \div 65536) < 65536
\* struct.pack("<I", x) and its inverse.
U32LE(x) == <<x % 256, (x \div 256) % 256, (x \div 65536) % 256,
              (x \div 16777216) % 256>>
U32At(data, i) ==
    data[i + 1] + 256 * data[i + 2] + 65536 * data[i + 3] + 16777216 * data[i + 4]

\* Python's s[i:j] for 0-based i <= j, cut at the end of s.
Slice0(s, i, j) == SubSeq(s, i + 1, Min(j, Len(s)))

(***************************************************************************)
(* src/4_2_1.py: the front-coding codec of the dictionary.                 *)
(***************************************************************************)
\* common_prefix_len without its break: counts every position that agrees.
RECURSIVE common_prefix_len_no_break(_, _)
common_prefix_len_no_break(a, b) ==
    IF a = <<>> \/ b = <<>> THEN 0
    ELSE (IF Head(a) = Head(b) THEN 1 ELSE 0)
            + common_prefix_len_no_break(Tail(a), Tail(b))

RECURSIVE common_prefix_len(_, _)
common_prefix_len(a, b) ==
    IF a = <<>> \/ b = <<>> THEN 0
    ELSE IF Head(a) = Head(b) THEN 1 + common_prefix_len(Tail(a), Tail(b))
    ELSE 0

\* The four writes of one record.  struct.pack raises struct.error on a value
\* outside the field's range; the bytes written before it stay in the file.
WriteRecord(prefix, suffix, offset, length) ==
    IF prefix > 255 THEN [ok |-> FALSE, bytes |-> <<>>]
    ELSE IF Len(suffix) > 255 THEN [ok |-> FALSE, bytes |-> <<prefix>>]
    ELSE IF ~FitsU32(offset) \/ ~FitsU32(length)
         THEN [ok |-> FALSE, bytes |-> <<prefix, Len(suffix)>> \o suffix]
    ELSE [ok |-> TRUE,
          bytes |-> <<prefix, Len(suffix)>> \o suffix \o U32LE(offset) \o U32LE(length)]

\* The records of the block terms[i : i + bs], from its k-th term (0-based) on.
RECURSIVE write_block(_, _, _, _, _)
write_block(dict, block, base, k, file) ==
    IF k >= Len(block) THEN [ok |-> TRUE, bytes |-> file]
    ELSE LET term == block[k + 1]
             prefix == IF k = 0 THEN 0 ELSE common_prefix_len(base, term)
             suffix == Utf8Encode(Tail0(term, prefix))
             w == WriteRecord(prefix, suffix, dict[term].offset, dict[term].length)
         IN IF w.ok THEN write_block(dict, block, base, k + 1, file \o w.bytes)
            ELSE [ok |-> FALSE, bytes |-> file \o w.bytes]

RECURSIVE encode_loop(_, _, _, _, _)
encode_loop(dict, terms, bs, i, file) ==
    IF i < Len(terms)
    THEN LET block == Slice0(terms, i, i + bs)
             w == write_block(dict, block, block[1], 0, file)
         IN IF w.ok THEN encode_loop(dict, terms, bs, i + bs, w.bytes)
            ELSE [status |-> "raise", exc |-> "struct.error", file |-> w.bytes]
    ELSE [status |-> "ok", exc |-> "", file |-> file]

front_coding_binary(dict, bs) ==
    encode_loop(dict, SortedStrs(DOMAIN dict), bs, 0, <<>>)

RECURSIVE decode_loop(_, _, _, _)
decode_loop(data, i, base, result) ==
    IF i < Len(data)
    THEN IF i + 1 >= Len(data)
         THEN [status |-> "raise", exc |-> "IndexError", result |-> result]
         ELSE
         LET prefix_len == data[i + 1]
             suffix_len == data[i + 2]
             raw == Slice0(data, i + 2, i + 2 + suffix_len)
             k == i + 2 + suffix_len
         IN IF ~Utf8Valid(raw)
            THEN [status |-> "raise", exc |-> "UnicodeDecodeError", result |-> result]
            ELSE IF k + 8 > Len(data)
            THEN [status |-> "raise", exc |-> "struct.error", result |-> result]
            ELSE LET suffix == Utf8Decode(raw)
                     offset == U32At(data, k)
                     length == U32At(data, k + 4)
                     term == IF prefix_len = 0 THEN suffix
                             ELSE Slice0(base, 0, prefix_len) \o suffix
                     newbase == IF prefix_len = 0 THEN suffix ELSE base
                 IN decode_loop(data, k + 8, newbase,
                                Append(result, <<term, offset, length>>))
    ELSE [status |-> "ok", exc |-> "", result |-> result]

front_coding_decode(data) == decode_loop(data, 0, <<>>, <<>>)

(***************************************************************************)
(* The front-coding script: encode dictionary.json, then decode the file.  *)
(***************************************************************************)
\* The (offset, length) values a dictionary entry takes in the model: a small
\* pair and one that uses every byte of the 32-bit fields.
Entries == {[offset |-> 0, length |-> 7], [offset |-> 70000, length |-> 16777473]}

Dictionaries ==
    UNION {[T -> Entries] : T \in {S \in SUBSET Terms : Cardinality(S) <= MaxTerms}}

\* A dictionary with a term of 256 bytes, one more than a suffix_len byte holds.
LongTerm == [k \in 1..256 |-> 97]
LongTermDictionary == [t \in {LongTerm, <<233>>} |-> [offset |-> 0, length |-> 7]]

InitFront ==
    /\ d \in Dictionaries \cup {LongTermDictionary}
    /\ block_size \in 1..MaxBlockSize
    /\ fc_file = <<>>
    /\ fc_result = None
    /\ pc = "encode"
    /\ IdleMerge
    /\ IdleIndex
    /\ IdleSearch
    /\ IdleReaders
    /\ IdleRank
    /\ IdleBlock

FrontCodingBinary ==
    /\ pc = "encode"
    /\ LET w == front_coding_binary(d, block_size)
       IN /\ fc_file' = w.file
          /\ pc' = IF w.status = "ok" THEN "decode" ELSE "raised"
    /\ UNCHANGED <<readerVars, rankVars, blockVars, d, block_size, fc_result, mergeVars, indexVars, searchVars>>

FrontCodingDecode ==
    /\ pc = "decode"
    /\ fc_result' = front_coding_decode(fc_file)
    /\ pc' = "done"
    /\ UNCHANGED <<readerVars, rankVars, blockVars, d, block_size, fc_file, mergeVars, indexVars, searchVars>>

NextFront == FrontCodingBinary \/ FrontCodingDecode

SpecFront == InitFront /\ [][NextFront]_vars

\* C5: decoding the file written by front_coding_binary returns the
\* dictionary's (term, offset, length) triples in sorted term order, for every
\* block size, also when a non-base term shares no prefix with its base.
C5_FrontCodingRoundTrip ==
    (pc = "done" /\ fc_result # None)
        => /\ fc_result.status = "ok"
           /\ Len(fc_result.result) = Cardinality(DOMAIN d)
           /\ \A k \in 1..Len(fc_result.result) :
                 LET r == fc_result.result[k]
                 IN /\ r[1] \in DOMAIN d
                    /\ r[2] = d[r[1]].offset
                    /\ r[3] = d[r[1]].length
           /\ \A k \in 1..(Len(fc_result.result) - 1) :
                 StrLess(fc_result.result[k][1], fc_result.result[k + 1][1])

\* One block of three terms: the second shares no prefix with the base "a" and
\* is written with prefix_len 0, the third follows it in the same block.
C5_Witness ==
    /\ fc_result # None
    /\ block_size = 3
    /\ DOMAIN d = {<<97>>, <<233>>, <<233, 97>>}
    /\ fc_file[1] = 0 /\ fc_file[12] = 0 /\ fc_file[24] = 0
    /\ fc_result.status = "ok"
    /\ Len(fc_result.result) = 3


(***************************************************************************)
(* src/lab1/3.py: the index builder and the dictionary builder.            *)
(* A document id k stands for the file name "D<k>.txt" (k in 1..9, where   *)
(* the order of the names is the order of the numbers).  A Python dict is  *)
(* a sequence of entries in insertion order.                               *)
(***************************************************************************)
new == <<110, 101, 119>>
york == <<121, 111, 114, 107>>
meetup == <<109, 101, 101, 116, 117, 112>>
group == <<103, 114, 111, 117, 112>>
tech == <<116, 101, 99, 104>>
workshop == <<119, 111, 114, 107, 115, 104, 111, 112>>
python == <<112, 121, 116, 104, 111, 110>>

\* The position of the entry of dict `dct` whose field `key` is k, or 0.
KeyIndex(dct, key, k) ==
    IF \E n \in 1..Len(dct) : dct[n][key] = k
    THEN CHOOSE n \in 1..Len(dct) : dct[n][key] = k
    ELSE 0

\* build_skip_pointers without its `if next_i < n`: the last stride also gets
\* a pointer, to the last element.
build_skip_pointers_no_bound_check(posting_list) ==
    LET n == Len(posting_list)
        skip_interval == ISqrt(n)
        starts == IF skip_interval > 1
                  THEN {i \in 0..(n - 1) : i % skip_interval = 0}
                  ELSE {}
    IN [k \in 1..Cardinality(starts) |->
            LET i == SortedSeq(starts)[k]
            IN [from |-> posting_list[i + 1],
                to |-> posting_list[Min(i + skip_interval, n - 1) + 1],
                jump |-> skip_interval]]

build_skip_pointers(posting_list) ==
    LET n == Len(posting_list)
        skip_interval == ISqrt(n)
        starts == IF skip_interval > 1
                  THEN {i \in 0..(n - 1) : i % skip_interval = 0
                                           /\ i + skip_interval < n}
                  ELSE {}
    IN [k \in 1..Cardinality(starts) |->
            LET i == SortedSeq(starts)[k]
            IN [from |-> posting_list[i + 1],
                to |-> posting_list[i + skip_interval + 1],
                jump |-> skip_interval]]

\* An accumulator step that keeps only the last position of a term in a
\* document instead of appending to the list.
AddOccurrenceOverwrite(inv, w, filename, pos) ==
    LET ti == KeyIndex(inv, "term", w)
    IN IF ti = 0
       THEN Append(inv, [term |-> w,
                         docs |-> <<[doc |-> filename, positions |-> <<pos>>]>>])
       ELSE LET di == KeyIndex(inv[ti].docs, "doc", filename)
            IN IF di = 0
               THEN [inv EXCEPT ![ti].docs =
                        Append(@, [doc |-> filename, positions |-> <<pos>>])]
               ELSE [inv EXCEPT ![ti].docs[di].positions = <<pos>>]

\* inverted_index[w][filename].append(pos) on the two nested defaultdicts.
AddOccurrence(inv, w, filename, pos) ==
    LET ti == KeyIndex(inv, "term", w)
    IN IF ti = 0
       THEN Append(inv, [term |-> w,
                         docs |-> <<[doc |-> filename, positions |-> <<pos>>]>>])
       ELSE LET di == KeyIndex(inv[ti].docs, "doc", filename)
            IN IF di = 0
               THEN [inv EXCEPT ![ti].docs =
                        Append(@, [doc |-> filename, positions |-> <<pos>>])]
               ELSE [inv EXCEPT ![ti].docs[di].positions = Append(@, pos)]

\* for pos, w in enumerate(words), from position pos on.
RECURSIVE ReadWords(_, _, _, _)
ReadWords(inv, filename, words, pos) ==
    IF pos >= Len(words) THEN inv
    ELSE ReadWords(AddOccurrence(inv, words[pos + 1], filename, pos),
                   filename, words, pos + 1)

\* A posting list that keeps the documents in the order they were read.
TermEntryUnsorted(entry) ==
    [term |-> entry.term,
     postings |-> entry.docs,
     skips |-> build_skip_pointers([k \in 1..Len(entry.docs) |-> entry.docs[k].doc])]

\* index_with_skips[term] for one entry of the accumulator.
TermEntry(entry) ==
    LET doc_dict == entry.docs
        sorted_docs == SortedSeq({doc_dict[k].doc : k \in 1..Len(doc_dict)})
    IN [term |-> entry.term,
        postings |-> [k \in 1..Len(sorted_docs) |->
                        [doc |-> sorted_docs[k],
                         positions |->
                            doc_dict[KeyIndex(doc_dict, "doc", sorted_docs[k])].positions]],
        skips |-> build_skip_pointers(sorted_docs)]

\* The index left in the insertion order of the accumulator, without the
\* rebuild in sorted term order.
GenerateUnsortedIndex(inv) == [k \in 1..Len(inv) |-> TermEntry(inv[k])]

\* The second and third phase of build_inverted_index: posting lists with
\* skips per term, then the dict rebuilt in sorted term order.
GenerateSortedIndex(inv) ==
    LET index_with_skips == [k \in 1..Len(inv) |-> TermEntry(inv[k])]
        sorted_terms == SortedStrs({inv[k].term : k \in 1..Len(inv)})
    IN [k \in 1..Len(sorted_terms) |->
            index_with_skips[KeyIndex(index_with_skips, "term", sorted_terms[k])]]

\* The number of decimal digits of a non-negative integer.
RECURSIVE Digits(_)
Digits(n) == IF n < 10 THEN 1 ELSE 1 + Digits(n \div 10)

\* The length of ", ".join(items) for items of the given lengths.
RECURSIVE SumSeq(_)
SumSeq(lens) == IF lens = <<>> THEN 0 ELSE Head(lens) + SumSeq(Tail(lens))
JoinLen(lens) == IF lens = <<>> THEN 0 ELSE SumSeq(lens) + 2 * (Len(lens) - 1)

\* The length of the JSON string "D<k>.txt", quotes included.
DocJsonLen(doc) == 7 + Digits(doc)

\* len(json.dumps(posting_data, ensure_ascii=False).encode('utf-8')):
\* {"postings": [{"doc": "D1.txt", "positions": [0, 1]}, ...],
\*  "skips": [{"from": "D1.txt", "to": "D3.txt", "jump": 2}, ...]}
PostingJsonLen(posting) ==
    8 + DocJsonLen(posting.doc) + 15 + 1
      + JoinLen([k \in 1..Len(posting.positions) |-> Digits(posting.positions[k])])
      + 1 + 1
SkipJsonLen(skip) ==
    9 + DocJsonLen(skip.from) + 8 + DocJsonLen(skip.to) + 10 + Digits(skip.jump) + 1
PostingDataJsonLen(posting_data) ==
    14 + JoinLen([k \in 1..Len(posting_data.postings) |->
                    PostingJsonLen(posting_data.postings[k])])
       + 13 + JoinLen([k \in 1..Len(posting_data.skips) |->
                         SkipJsonLen(posting_data.skips[k])])
       + 2

\* A dictionary loop that restarts the offset of every term at 0.
RECURSIVE dictionary_loop_no_advance(_, _, _, _, _)
dictionary_loop_no_advance(inv_index, sorted_terms, k, offset, dict) ==
    IF k > Len(sorted_terms) THEN dict
    ELSE LET term == sorted_terms[k]
             posting_data == inv_index[KeyIndex(inv_index, "term", term)]
             length == PostingDataJsonLen(posting_data)
         IN dictionary_loop_no_advance(inv_index, sorted_terms, k + 1, offset,
                Append(dict, [term |-> term, offset |-> offset, length |-> length]))

\* The loop of build_dictionary over sorted_terms, from its k-th term on.
RECURSIVE dictionary_loop(_, _, _, _, _)
dictionary_loop(inv_index, sorted_terms, k, offset, dict) ==
    IF k > Len(sorted_terms) THEN dict
    ELSE LET term == sorted_terms[k]
             posting_data == inv_index[KeyIndex(inv_index, "term", term)]
             length == PostingDataJsonLen(posting_data)
         IN dictionary_loop(inv_index, sorted_terms, k + 1, offset + length,
                Append(dict, [term |-> term, offset |-> offset, length |-> length]))

build_dictionary(inv_index) ==
    dictionary_loop(inv_index, SortedStrs({inv_index[k].term : k \in 1..Len(inv_index)}),
                    1, 0, <<>>)

(***************************************************************************)
(* The build script: list the directory, read every .txt file, generate    *)
(* the sorted index, build the dictionary.                                 *)
(***************************************************************************)
Vocabulary == {new, york}

RECURSIVE WordSeqsUpTo(_)
WordSeqsUpTo(n) ==
    IF n = 0 THEN {<<>>}
    ELSE LET shorter == WordSeqsUpTo(n - 1)
         IN shorter \cup {Append(ws, w) : ws \in shorter, w \in Vocabulary}

\* An entry of the directory that is not a tokenized document.
OtherEntry == [txt |-> FALSE, words |-> <<new, tech>>]

Directory(docWords) ==
    [k \in {0} \cup DOMAIN docWords |->
        IF k = 0 THEN OtherEntry ELSE [txt |-> TRUE, words |-> docWords[k]]]

GenericCorpora == [1..MaxDocs -> WordSeqsUpTo(MaxWords)]

\* D1 = "new york meetup group", D2 = "new york tech workshop",
\* D3 = "python workshop".
ExampleCorpus ==
    <<<<new, york, meetup, group>>, <<new, york, tech, workshop>>,
      <<python, workshop>>>>

\* Every order in which os.listdir may return the entries of S.
RECURSIVE Orders(_)
Orders(S) ==
    IF S = {} THEN {<<>>}
    ELSE UNION {{<<x>> \o o : o \in Orders(S \ {x})} : x \in S}

InitIndex ==
    /\ tokenized_dir \in {Directory(c) : c \in GenericCorpora \cup {ExampleCorpus}}
    /\ files = <<>>
    /\ nread = 0
    /\ inverted_index = <<>>
    /\ sorted_inverted_index = <<>>
    /\ dictionary = <<>>
    /\ pc = "listdir"
    /\ IdleMerge
    /\ IdleCodec
    /\ IdleSearch
    /\ IdleReaders
    /\ IdleRank
    /\ IdleBlock

\* files = [f for f in os.listdir(tokenized_dir) if f.endswith(".txt")]
ListDir ==
    /\ pc = "listdir"
    /\ files' \in Orders({k \in DOMAIN tokenized_dir : tokenized_dir[k].txt})
    /\ pc' = "read"
    /\ UNCHANGED <<readerVars, rankVars, blockVars, tokenized_dir, nread, inverted_index, sorted_inverted_index,
                   dictionary, mergeVars, codecVars, searchVars>>

\* One iteration of the loop over files: the whole file is read and indexed.
ReadFile ==
    /\ pc = "read"
    /\ nread < Len(files)
    /\ LET filename == files[nread + 1]
       IN inverted_index' =
            ReadWords(inverted_index, filename, tokenized_dir[filename].words, 0)
    /\ nread' = nread + 1
    /\ UNCHANGED <<readerVars, rankVars, blockVars, tokenized_dir, files, sorted_inverted_index, dictionary, pc,
                   mergeVars, codecVars, searchVars>>

GenerateIndex ==
    /\ pc = "read"
    /\ nread = Len(files)
    /\ sorted_inverted_index' = GenerateSortedIndex(inverted_index)
    /\ pc' = "dictionary"
    /\ UNCHANGED <<readerVars, rankVars, blockVars, tokenized_dir, files, nread, inverted_index, dictionary,
                   mergeVars, codecVars, searchVars>>

BuildDictionary ==
    /\ pc = "dictionary"
    /\ dictionary' = build_dictionary(sorted_inverted_index)
    /\ pc' = "done"
    /\ UNCHANGED <<readerVars, rankVars, blockVars, tokenized_dir, files, nread, inverted_index,
                   sorted_inverted_index, mergeVars, codecVars, searchVars>>

NextIndex == ListDir \/ ReadFile \/ GenerateIndex \/ BuildDictionary

SpecIndex == InitIndex /\ [][NextIndex]_vars


IndexGenerated == pc \in {"dictionary", "done"}

\* C6: in the index returned by build_inverted_index every posting list has
\* strictly increasing document ids and every posting has strictly increasing
\* positions.
C6_PostingsAndPositionsIncreasing ==
    IndexGenerated
        => \A k \in 1..Len(sorted_inverted_index) :
              LET pl == sorted_inverted_index[k].postings
              IN /\ IsStrictlyIncreasing([n \in 1..Len(pl) |-> pl[n].doc])
                 /\ \A n \in 1..Len(pl) : IsStrictlyIncreasing(pl[n].positions)

\* The files were read in descending order and a term occurs in both
\* documents, twice in one of them.
C6_Witness ==
    /\ IndexGenerated
    /\ files = <<2, 1>>
    /\ \E k \in 1..Len(sorted_inverted_index) :
          LET pl == sorted_inverted_index[k].postings
          IN /\ Len(pl) = 2
             /\ Len(pl[1].positions) >= 2

\* C10: the dictionary is in ascending term order, starts at offset 0, and
\* the offset of each term is the previous term's offset plus its length.
C10_DictionaryContiguous ==
    pc = "done"
        => /\ \A k \in 1..(Len(dictionary) - 1) :
                 /\ StrLess(dictionary[k].term, dictionary[k + 1].term)
                 /\ dictionary[k + 1].offset =
                        dictionary[k].offset + dictionary[k].length
           /\ Len(dictionary) >= 1 => dictionary[1].offset = 0
           /\ Len(dictionary) = Len(sorted_inverted_index)

C10_Witness ==
    /\ pc = "done"
    /\ Len(dictionary) >= 2
    /\ dictionary[2].offset > 0
    /\ dictionary[2].length # dictionary[1].length


(***************************************************************************)
(* build_inverted_index as one function of the directory and the listing   *)
(* order, for the scripts that start from inverted_index.json.             *)
(***************************************************************************)
RECURSIVE ReadFiles(_, _, _, _)
ReadFiles(inv, dir, fs, k) ==
    IF k >= Len(fs) THEN inv
    ELSE ReadFiles(ReadWords(inv, fs[k + 1], dir[fs[k + 1]].words, 0), dir, fs, k + 1)

build_inverted_index(dir, fs) == GenerateSortedIndex(ReadFiles(<<>>, dir, fs, 0))

(***************************************************************************)
(* src/lab1/5_A_1.py: load_postings.                                       *)
(* src/lab1/5_A_3.py: load_inverted_index and the two phrase searches.     *)
(***************************************************************************)
\* sorted(list) of integers (duplicates kept).
RECURSIVE SortedList(_)
SortedList(xs) ==
    IF xs = <<>> THEN <<>>
    ELSE LET k == CHOOSE n \in 1..Len(xs) :
                     /\ \A m \in 1..Len(xs) : xs[n] <= xs[m]
                     /\ \A m \in 1..(n - 1) : xs[m] # xs[n]
         IN <<xs[k]>> \o SortedList(SubSeq(xs, 1, k - 1) \o SubSeq(xs, k + 1, Len(xs)))

\* postings[term] = sorted([p["doc"] for p in data["postings"]])
load_postings(inv) ==
    [k \in 1..Len(inv) |->
        [term |-> inv[k].term,
         docs |-> SortedList([n \in 1..Len(inv[k].postings) |-> inv[k].postings[n].doc])]]

\* index[term][doc_id] = sorted(positions)
load_inverted_index(inv_index) ==
    [k \in 1..Len(inv_index) |->
        [term |-> inv_index[k].term,
         docs |-> [n \in 1..Len(inv_index[k].postings) |->
                    [doc |-> inv_index[k].postings[n].doc,
                     positions |-> SortedList(inv_index[k].postings[n].positions)]]]]

\* term in index, index[term], set(index[term].keys()), index[term][doc_id]
HasTerm(idx, term) == KeyIndex(idx, "term", term) # 0
DocsOf(idx, term) == idx[KeyIndex(idx, "term", term)].docs
DocSet(idx, term) == {DocsOf(idx, term)[n].doc : n \in 1..Len(DocsOf(idx, term))}
PositionsOf(idx, term, doc_id) ==
    DocsOf(idx, term)[KeyIndex(DocsOf(idx, term), "doc", doc_id)].positions

\* sorted(phrase_terms, key=lambda t: len(index[t])): a stable sort.
RECURSIVE InsertByDF(_, _, _)
InsertByDF(idx, sorted, t) ==
    IF sorted = <<>> THEN <<t>>
    ELSE LET last == sorted[Len(sorted)]
         IN IF Len(DocsOf(idx, last)) <= Len(DocsOf(idx, t))
            THEN Append(sorted, t)
            ELSE Append(InsertByDF(idx, SubSeq(sorted, 1, Len(sorted) - 1), t), last)

RECURSIVE SortedByDF(_, _)
SortedByDF(idx, terms) ==
    IF terms = <<>> THEN <<>>
    ELSE InsertByDF(idx, SortedByDF(idx, SubSeq(terms, 1, Len(terms) - 1)),
                    terms[Len(terms)])

\* The loop over sorted_terms[1:], which stops on an empty intermediate result.
RECURSIVE and_docs_loop(_, _, _, _)
and_docs_loop(idx, sorted_terms, k, result) ==
    IF k > Len(sorted_terms) THEN result
    ELSE LET r == result \cap DocSet(idx, sorted_terms[k])
         IN IF r = {} THEN r ELSE and_docs_loop(idx, sorted_terms, k + 1, r)

\* An AND that starts its accumulator from the empty set.
search_without_positions_from_empty(idx, phrase_terms) ==
    IF phrase_terms = <<>> \/ \E n \in 1..Len(phrase_terms) : ~HasTerm(idx, phrase_terms[n])
    THEN <<>>
    ELSE LET sorted_terms == SortedByDF(idx, phrase_terms)
         IN SortedSeq(and_docs_loop(idx, sorted_terms, 2, {}))

search_without_positions(idx, phrase_terms) ==
    IF phrase_terms = <<>> \/ \E n \in 1..Len(phrase_terms) : ~HasTerm(idx, phrase_terms[n])
    THEN <<>>
    ELSE LET sorted_terms == SortedByDF(idx, phrase_terms)
         IN SortedSeq(and_docs_loop(idx, sorted_terms, 2, DocSet(idx, sorted_terms[1])))

\* A verification that expects term i at start_pos + i + 1.
verify_phrase_positions_off_by_one(positions_list) ==
    IF Len(positions_list) < 2 THEN <<>>
    ELSE LET IsValid(start_pos) ==
                 \A i \in 1..(Len(positions_list) - 1) :
                     (start_pos + i + 1) \in Range(positions_list[i + 1])
         IN SelectSeq(positions_list[1], IsValid)

verify_phrase_positions(positions_list) ==
    IF Len(positions_list) < 2 THEN <<>>
    ELSE LET IsValid(start_pos) ==
                 \A i \in 1..(Len(positions_list) - 1) :
                     (start_pos + i) \in Range(positions_list[i + 1])
         IN SelectSeq(positions_list[1], IsValid)

\* The result dict as a function from the matching documents to their valid
\* starting positions.
search_with_positions(idx, phrase_terms) ==
    IF phrase_terms = <<>> \/ \E n \in 1..Len(phrase_terms) : ~HasTerm(idx, phrase_terms[n])
    THEN <<>>
    ELSE LET candidate_docs ==
                 {doc \in DocSet(idx, phrase_terms[1]) :
                     \A n \in 1..Len(phrase_terms) : doc \in DocSet(idx, phrase_terms[n])}
             Valid(doc_id) ==
                 verify_phrase_positions(
                     [n \in 1..Len(phrase_terms) |-> PositionsOf(idx, phrase_terms[n], doc_id)])
         IN [doc_id \in {c \in candidate_docs : Valid(c) # <<>>} |-> Valid(doc_id)]

(***************************************************************************)
(* src/lab1/5_A_2.py: search_and, search_or, execute_query over the        *)
(* mapping term -> sorted doc ids (its intersect and union are the loops   *)
(* of src/lab1/5_A_1.py).                                                  *)
(***************************************************************************)
\* The loop that, on an empty intermediate result, returns the result it had
\* before instead of the empty list.
RECURSIVE search_and_loop_keep_result(_, _, _, _)
search_and_loop_keep_result(post, sorted_terms, k, result) ==
    IF k > Len(sorted_terms) THEN result
    ELSE LET r == intersect(result, DocsOf(post, sorted_terms[k]))
         IN IF r = <<>> THEN result
            ELSE search_and_loop_keep_result(post, sorted_terms, k + 1, r)

\* for term in sorted_terms[1:]: result = intersect(...); stop when empty.
RECURSIVE search_and_loop(_, _, _, _)
search_and_loop(post, sorted_terms, k, result) ==
    IF k > Len(sorted_terms) THEN result
    ELSE LET r == intersect(result, DocsOf(post, sorted_terms[k]))
         IN IF r = <<>> THEN r ELSE search_and_loop(post, sorted_terms, k + 1, r)

search_and(post, terms) ==
    IF terms = <<>> \/ \E n \in 1..Len(terms) : ~HasTerm(post, terms[n])
    THEN <<>>
    ELSE LET sorted_terms == SortedByDF(post, terms)
         IN search_and_loop(post, sorted_terms, 2, DocsOf(post, sorted_terms[1]))

\* for term in terms[1:]: if term in postings: result = union(result, ...)
RECURSIVE search_or_loop(_, _, _, _)
search_or_loop(post, terms, k, result) ==
    IF k > Len(terms) THEN result
    ELSE search_or_loop(post, terms, k + 1,
                        IF HasTerm(post, terms[k])
                        THEN union(result, DocsOf(post, terms[k]))
                        ELSE result)

\* An OR that gives up when its first term is not in the mapping.
search_or_first_required(post, terms) ==
    IF terms = <<>> \/ ~HasTerm(post, terms[1]) THEN <<>>
    ELSE search_or_loop(post, terms, 2, DocsOf(post, terms[1]))

search_or(post, terms) ==
    IF terms = <<>> THEN <<>>
    ELSE search_or_loop(post, terms, 2,
                        IF HasTerm(post, terms[1]) THEN DocsOf(post, terms[1])
                        ELSE <<>>)

execute_query(post, query_type, terms) ==
    IF query_type = "AND" THEN search_and(post, terms)
    ELSE IF query_type = "OR" THEN search_or(post, terms)
    ELSE <<>>

(***************************************************************************)
(* src/lab1/5_A_4.py: build_skip_indexes over the loaded index, and        *)
(* benchmark_query.  The measured average time is the token "float".       *)
(***************************************************************************)
\* skip_indexes[term] = SkipListIndex(term, sorted(postings.keys()), skip_step)
build_skip_indexes(idx, skip_strategy) ==
    [k \in 1..Len(idx) |->
        LET doc_ids == SortedSeq(DocSet(idx, idx[k].term))
        IN [term |-> idx[k].term,
            skiplist |-> SkipListIndex(idx[k].term, doc_ids,
                                       StrategyStep(skip_strategy, Len(doc_ids)))]]

\* The pair (avg_time, len(result)); (None, 0) when a term has no skip list.
benchmark_query(skip_indexes, term1, term2) ==
    IF KeyIndex(skip_indexes, "term", term1) = 0 \/ KeyIndex(skip_indexes, "term", term2) = 0
    THEN [avg_time |-> "None", count |-> 0]
    ELSE LET result == intersect_with_skiplist(
                           skip_indexes[KeyIndex(skip_indexes, "term", term1)].skiplist,
                           skip_indexes[KeyIndex(skip_indexes, "term", term2)].skiplist)
         IN [avg_time |-> "float", count |-> Len(result)]

(***************************************************************************)
(* The query scripts: load inverted_index.json, then answer queries.       *)
(***************************************************************************)
SearchDocs == {1, 2}
SearchCorpora == [SearchDocs -> WordSeqsUpTo(MaxWords)]
QueryVocabulary == {new, york, tech}

RECURSIVE PhrasesUpTo(_)
PhrasesUpTo(n) ==
    IF n = 0 THEN {<<>>}
    ELSE LET shorter == PhrasesUpTo(n - 1)
         IN shorter \cup {Append(ph, t) : ph \in shorter, t \in QueryVocabulary}

InitSearch ==
    /\ tokenized_dir \in {Directory(c) : c \in SearchCorpora \cup {ExampleCorpus}}
    /\ files = SortedSeq({k \in DOMAIN tokenized_dir : tokenized_dir[k].txt})
    /\ nread = Len(files)
    /\ inverted_index = ReadFiles(<<>>, tokenized_dir, files, 0)
    /\ sorted_inverted_index = build_inverted_index(tokenized_dir, files)
    /\ dictionary = build_dictionary(sorted_inverted_index)
    /\ postings = <<>>
    /\ index = <<>>
    /\ pc = "load_postings"
    /\ IdleMerge
    /\ IdleCodec
    /\ IdleReaders
    /\ IdleRank
    /\ IdleBlock

LoadPostings ==
    /\ pc = "load_postings"
    /\ postings' = load_postings(sorted_inverted_index)
    /\ pc' = "load_inverted_index"
    /\ UNCHANGED <<readerVars, rankVars, blockVars, index, mergeVars, codecVars, indexVars>>

LoadInvertedIndex ==
    /\ pc = "load_inverted_index"
    /\ index' = load_inverted_index(sorted_inverted_index)
    /\ pc' = "query"
    /\ UNCHANGED <<readerVars, rankVars, blockVars, postings, mergeVars, codecVars, indexVars>>

SearchWithoutPositions(phrase_terms) ==
    /\ pc = "query"
    /\ answer' = [op |-> "search_without_positions", terms |-> phrase_terms,
                  val |-> search_without_positions(index, phrase_terms)]
    /\ pc' = "answered"
    /\ UNCHANGED <<readerVars, rankVars, blockVars, p1, p2, skip_idx1, skip_idx2, codecVars, indexVars, searchVars>>

SearchWithPositions(phrase_terms) ==
    /\ pc = "query"
    /\ answer' = [op |-> "search_with_positions", terms |-> phrase_terms,
                  val |-> search_with_positions(index, phrase_terms)]
    /\ pc' = "answered"
    /\ UNCHANGED <<readerVars, rankVars, blockVars, p1, p2, skip_idx1, skip_idx2, codecVars, indexVars, searchVars>>

QueryTypes == {"AND", "OR", "NOT"}

SearchAnd(terms) ==
    /\ pc = "query"
    /\ answer' = [op |-> "search_and", terms |-> terms,
                  val |-> search_and(postings, terms)]
    /\ pc' = "answered"
    /\ UNCHANGED <<p1, p2, skip_idx1, skip_idx2, codecVars, indexVars, searchVars,
                   readerVars, rankVars, blockVars>>

SearchOr(terms) ==
    /\ pc = "query"
    /\ answer' = [op |-> "search_or", terms |-> terms,
                  val |-> search_or(postings, terms)]
    /\ pc' = "answered"
    /\ UNCHANGED <<p1, p2, skip_idx1, skip_idx2, codecVars, indexVars, searchVars,
                   readerVars, rankVars, blockVars>>

ExecuteQuery(query_type, terms) ==
    /\ pc = "query"
    /\ answer' = [op |-> "execute_query", query_type |-> query_type, terms |-> terms,
                  val |-> execute_query(postings, query_type, terms)]
    /\ pc' = "answered"
    /\ UNCHANGED <<p1, p2, skip_idx1, skip_idx2, codecVars, indexVars, searchVars,
                   readerVars, rankVars, blockVars>>

BenchmarkQuery(skip_strategy, term1, term2) ==
    /\ pc = "query"
    /\ answer' = [op |-> "benchmark_query", terms |-> <<term1, term2>>,
                  val |-> benchmark_query(build_skip_indexes(index, skip_strategy),
                                           term1, term2)]
    /\ pc' = "answered"
    /\ UNCHANGED <<p1, p2, skip_idx1, skip_idx2, codecVars, indexVars, searchVars,
                   readerVars, rankVars, blockVars>>

\* The experiment loop drops the result and goes on to its next query.
NextQuery ==
    /\ pc = "answered"
    /\ answer' = NoAnswer
    /\ pc' = "query"
    /\ UNCHANGED <<readerVars, rankVars, blockVars, p1, p2, skip_idx1, skip_idx2, codecVars, indexVars, searchVars>>

NextSearch ==
    \/ LoadPostings
    \/ LoadInvertedIndex
    \/ \E ph \in PhrasesUpTo(MaxPhraseLen) : SearchWithoutPositions(ph)
    \/ \E ph \in PhrasesUpTo(MaxPhraseLen) : SearchWithPositions(ph)
    \/ \E ts \in PhrasesUpTo(MaxPhraseLen) : SearchAnd(ts)
    \/ \E ts \in PhrasesUpTo(MaxPhraseLen) : SearchOr(ts)
    \/ \E qt \in QueryTypes, ts \in PhrasesUpTo(MaxPhraseLen) : ExecuteQuery(qt, ts)
    \/ \E st \in SkipStrategies, t1, t2 \in QueryVocabulary : BenchmarkQuery(st, t1, t2)
    \/ NextQuery

SpecSearch == InitSearch /\ [][NextSearch]_vars

\* C7: the documents the phrase search reports are among the documents the
\* AND-only search reports for the same term list.
C7_PhraseSubsetOfAnd ==
    answer.op = "search_with_positions"
        => DOMAIN answer.val \subseteq Range(search_without_positions(index, answer.terms))

\* A phrase that the AND-only search finds in both documents and the phrase
\* search in exactly one.
C7_Witness ==
    /\ answer.op = "search_with_positions"
    /\ Len(answer.terms) = 2
    /\ Cardinality(DOMAIN answer.val) = 1
    /\ Len(search_without_positions(index, answer.terms)) = 2

\* The documents and starting positions at which the whole phrase occurs:
\* p in the first term's positions, p + i - 1 in the i-th term's positions.
PhraseStarts(idx, phrase_terms, doc) ==
    LET Chain(p) == \A i \in 1..Len(phrase_terms) :
                        /\ doc \in DocSet(idx, phrase_terms[i])
                        /\ (p + i - 1) \in Range(PositionsOf(idx, phrase_terms[i], doc))
    IN IF doc \in DocSet(idx, phrase_terms[1])
       THEN SelectSeq(PositionsOf(idx, phrase_terms[1], doc), Chain)
       ELSE <<>>

PhraseMatches(idx, phrase_terms) ==
    LET docs == UNION {DocSet(idx, phrase_terms[i]) : i \in 1..Len(phrase_terms)}
    IN [doc \in {c \in docs : PhraseStarts(idx, phrase_terms, c) # <<>>}
            |-> PhraseStarts(idx, phrase_terms, doc)]

\* C8: for a phrase of k >= 1 indexed terms, search_with_positions maps
\* exactly the documents that hold the phrase to all its starting positions.
C8_PhraseSearchExact ==
    (/\ answer.op = "search_with_positions"
     /\ Len(answer.terms) >= 1
     /\ \A n \in 1..Len(answer.terms) : HasTerm(index, answer.terms[n]))
        => answer.val = PhraseMatches(index, answer.terms)

\* C9: over D1 = "new york meetup group", D2 = "new york tech workshop",
\* D3 = "python workshop": workshop has postings [D2, D3], new AND york is
\* [D1, D2], new AND york AND NOT tech is [D1], and the phrase "new york"
\* matches D1 and D2.
C9_EndToEndExample ==
    (tokenized_dir = Directory(ExampleCorpus) /\ pc \in {"query", "answered"})
        => /\ LET pl == sorted_inverted_index[
                           KeyIndex(sorted_inverted_index, "term", workshop)].postings
              IN [n \in 1..Len(pl) |-> pl[n].doc] = <<2, 3>>
           /\ LET pnew == DocsOf(postings, new)
                  pyork == DocsOf(postings, york)
                  ptech == DocsOf(postings, tech)
              IN /\ intersect(pnew, pyork) = <<1, 2>>
                 /\ difference(intersect(pnew, pyork), ptech) = <<1>>
           /\ (answer.op = "search_with_positions" /\ answer.terms = <<new, york>>)
                 => (DOMAIN answer.val = {1, 2} /\ answer.val[1] = <<0>>
                     /\ answer.val[2] = <<0>>)

C9_Witness ==
    /\ tokenized_dir = Directory(ExampleCorpus)
    /\ pc = "answered"
    /\ answer.op = "search_with_positions"
    /\ answer.terms = <<new, york>>
    /\ DOMAIN answer.val = {1, 2}


(***************************************************************************)
(* Properties of the boolean searches of src/lab1/5_A_2.py.                *)
(***************************************************************************)
\* The terms of a query that are keys of the mapping, in query order.
PresentTerms(post, terms) == SelectSeq(terms, LAMBDA t : HasTerm(post, t))

\* C11: a query with a term absent from the index returns the empty list for
\* AND; for OR the absent term is a no-op, wherever it stands in the term
\* list: the result is the OR of the remaining terms, the sorted union of
\* their posting lists.
C11_AbsentTermAndEmptyOrNoOp ==
    (/\ answer.op \in {"search_and", "search_or"}
     /\ \E n \in 1..Len(answer.terms) : ~HasTerm(postings, answer.terms[n]))
        => /\ answer.op = "search_and" => answer.val = <<>>
           /\ answer.op = "search_or" =>
                 LET rest == PresentTerms(postings, answer.terms)
                 IN /\ answer.val = search_or(postings, rest)
                    /\ answer.val = SortedSeq(UNION {Range(DocsOf(postings, rest[n])) :
                                                        n \in 1..Len(rest)})

\* An OR whose first term is absent and whose later terms have postings, and
\* an AND over a present and an absent term.
C11_Witness ==
    /\ answer.op = "search_or"
    /\ Len(answer.terms) = 3
    /\ ~HasTerm(postings, answer.terms[1])
    /\ HasTerm(postings, answer.terms[2])
    /\ HasTerm(postings, answer.terms[3])
    /\ answer.terms[2] # answer.terms[3]
    /\ Len(answer.val) = 2
    /\ search_and(postings, <<answer.terms[2], answer.terms[1]>>) = <<>>
    /\ search_and(postings, <<answer.terms[2], answer.terms[3]>>) # <<>>


\* The value an entry point returns for the term list ts over the loaded index.
EntryPointValue(op, query_type, ts) ==
    CASE op = "search_and" -> search_and(postings, ts)
      [] op = "search_or" -> search_or(postings, ts)
      [] op = "execute_query" -> execute_query(postings, query_type, ts)
      [] op = "search_without_positions" -> search_without_positions(index, ts)
      [] op = "search_with_positions" -> search_with_positions(index, ts)
      [] op = "benchmark_query" ->
            benchmark_query(build_skip_indexes(index, "sqrt"), ts[1], ts[2])

\* Term lists whose terms are all indexed and share no document.
ZeroMatchQueries ==
    {ts \in PhrasesUpTo(MaxPhraseLen) :
        /\ ts # <<>>
        /\ \A n \in 1..Len(ts) : HasTerm(postings, ts[n])
        /\ ~\E doc \in Range(DocsOf(postings, ts[1])) :
              \A n \in 1..Len(ts) : doc \in Range(DocsOf(postings, ts[n]))}

QueryEntryPoints ==
    {"search_and", "search_or", "execute_query", "search_without_positions",
     "search_with_positions", "benchmark_query"}

\* C12: at every query entry point, the value returned for a query with a
\* term absent from the index differs from the value returned for a query
\* whose terms are all indexed but share no document.
C12_AbsentDistinguishableFromZeroMatch ==
    (/\ answer.op \in QueryEntryPoints
     /\ \E n \in 1..Len(answer.terms) : ~HasTerm(postings, answer.terms[n]))
        => \A ts \in ZeroMatchQueries :
              (answer.op = "benchmark_query" => Len(ts) = 2)
                 => EntryPointValue(answer.op,
                                    IF answer.op = "execute_query"
                                    THEN answer.query_type ELSE "", ts) # answer.val


(***************************************************************************)
(* src/lab1/5_A_1.py: the query strategies q1 .. q3 over the mapping that  *)
(* load_postings returns.  That mapping is a defaultdict(list): reading    *)
(* postings[t] for a term t that is not a key inserts t with an empty      *)
(* list.  Each strategy is modelled with the mapping it leaves behind.     *)
(***************************************************************************)
free == <<102, 114, 101, 101>>
social == <<115, 111, 99, 105, 97, 108>>
hiking == <<104, 105, 107, 105, 110, 103>>
party == <<112, 97, 114, 116, 121>>
online == <<111, 110, 108, 105, 110, 101>>
event == <<101, 118, 101, 110, 116>>
career == <<99, 97, 114, 101, 101, 114>>
leadership == <<108, 101, 97, 100, 101, 114, 115, 104, 105, 112>>
agile == <<97, 103, 105, 108, 101>>

\* The mapping after postings[t] has been read: defaultdict.__missing__.
GetItem(post, t) ==
    IF HasTerm(post, t) THEN post ELSE Append(post, [term |-> t, docs |-> <<>>])

\* The mapping after postings[t] has been read for each t of ts in turn.
RECURSIVE GetItems(_, _)
GetItems(post, ts) ==
    IF ts = <<>> THEN post ELSE GetItems(GetItem(post, Head(ts)), Tail(ts))

\* sorted(terms, key=lambda t: len(postings[t]), reverse=True): stable.
RECURSIVE InsertByDFReverse(_, _, _)
InsertByDFReverse(post, sorted, t) ==
    IF sorted = <<>> THEN <<t>>
    ELSE LET last == sorted[Len(sorted)]
         IN IF Len(DocsOf(post, last)) >= Len(DocsOf(post, t))
            THEN Append(sorted, t)
            ELSE Append(InsertByDFReverse(post, SubSeq(sorted, 1, Len(sorted) - 1), t),
                        last)

RECURSIVE SortedByDFReverse(_, _)
SortedByDFReverse(post, terms) ==
    IF terms = <<>> THEN <<>>
    ELSE InsertByDFReverse(post, SortedByDFReverse(post, SubSeq(terms, 1, Len(terms) - 1)),
                           terms[Len(terms)])

\* for term in sorted_terms[1:]: result = intersect(result, postings[term])
RECURSIVE intersect_chain(_, _, _, _)
intersect_chain(post, sorted_terms, k, result) ==
    IF k > Len(sorted_terms) THEN result
    ELSE intersect_chain(post, sorted_terms, k + 1,
                         intersect(result, DocsOf(post, sorted_terms[k])))

\* for term in or_terms[1:]: res_or = union(res_or, postings[term])
RECURSIVE union_chain(_, _, _, _)
union_chain(post, or_terms, k, res_or) ==
    IF k > Len(or_terms) THEN res_or
    ELSE union_chain(post, or_terms, k + 1, union(res_or, DocsOf(post, or_terms[k])))

q1_terms == <<new, york, event, meetup, group>>
q2_or_terms == <<social, hiking, party>>
q3_or_terms == <<career, leadership>>

q1_strategy1(post) ==
    LET post1 == GetItems(post, q1_terms)
        sorted_terms == SortedByDF(post1, q1_terms)
    IN [postings |-> post1,
        result |-> intersect_chain(post1, sorted_terms, 2, DocsOf(post1, sorted_terms[1]))]

q1_strategy2(post) ==
    LET post1 == GetItems(post, q1_terms)
        sorted_terms == SortedByDFReverse(post1, q1_terms)
    IN [postings |-> post1,
        result |-> intersect_chain(post1, sorted_terms, 2, DocsOf(post1, sorted_terms[1]))]

\* for and_res in and_results[1:]: result = union(result, and_res)
RECURSIVE union_results(_, _, _)
union_results(and_results, k, result) ==
    IF k > Len(and_results) THEN result
    ELSE union_results(and_results, k + 1, union(result, and_results[k]))

q2_strategy1(post) ==
    LET post1 == GetItems(post, <<free, social, free, hiking, free, party>>)
        and_results == [k \in 1..Len(q2_or_terms) |->
                           intersect(DocsOf(post1, free), DocsOf(post1, q2_or_terms[k]))]
        result == union_results(and_results, 2, and_results[1])
        post2 == GetItem(post1, online)
    IN [postings |-> post2, result |-> difference(result, DocsOf(post2, online))]

\* A strategy whose OR loop keeps only the last branch.
q2_strategy2_last_branch(post) ==
    LET post1 == GetItems(post, q2_or_terms)
        res_or == DocsOf(post1, q2_or_terms[Len(q2_or_terms)])
        post2 == GetItem(post1, free)
        res_and == intersect(DocsOf(post2, free), res_or)
        post3 == GetItem(post2, online)
    IN [postings |-> post3, result |-> difference(res_and, DocsOf(post3, online))]

q2_strategy2(post) ==
    LET post1 == GetItems(post, q2_or_terms)
        res_or == union_chain(post1, q2_or_terms, 2, DocsOf(post1, q2_or_terms[1]))
        post2 == GetItem(post1, free)
        res_and == intersect(DocsOf(post2, free), res_or)
        post3 == GetItem(post2, online)
    IN [postings |-> post3, result |-> difference(res_and, DocsOf(post3, online))]

q3_strategy1(post) ==
    LET post1 == GetItems(post, q3_or_terms)
        res_or == union_chain(post1, q3_or_terms, 2, DocsOf(post1, q3_or_terms[1]))
        post2 == GetItem(post1, workshop)
        res_and == intersect(res_or, DocsOf(post2, workshop))
        post3 == GetItem(post2, agile)
    IN [postings |-> post3, result |-> difference(res_and, DocsOf(post3, agile))]

q3_strategy2(post) ==
    LET post1 == GetItems(post, <<workshop, agile>>)
        res_not == difference(DocsOf(post1, workshop), DocsOf(post1, agile))
        post2 == GetItems(post1, q3_or_terms)
        res_or == union_chain(post2, q3_or_terms, 2, DocsOf(post2, q3_or_terms[1]))
    IN [postings |-> post2, result |-> intersect(res_or, res_not)]

(***************************************************************************)
(* The boolean experiment: a mapping as load_postings returns it (terms in *)
(* the order of the index file, every list non-empty and increasing), then *)
(* one call of a strategy or of a search of src/lab1/5_A_2.py on it.       *)
(***************************************************************************)
NonEmptyPostingLists == {SortedSeq(S) : S \in (SUBSET (1..MaxDocs)) \ {{}}}

\* The mapping with the keys of f in sorted order.
AsPostings(f) ==
    LET ks == SortedStrs(DOMAIN f)
    IN [k \in 1..Len(ks) |-> [term |-> ks[k], docs |-> f[ks[k]]]]

QueryTermSets ==
    {Range(q1_terms), Range(q2_or_terms) \cup {free, online},
     Range(q3_or_terms) \cup {workshop, agile}}

LoadedPostings ==
    {AsPostings(f) : f \in UNION {[T -> NonEmptyPostingLists] :
                                     T \in UNION {SUBSET Q : Q \in QueryTermSets}}}

BoolTermLists ==
    {<<meetup, group>>, <<tech, workshop, free>>, <<new, york, event>>, q1_terms}

InitBool ==
    /\ postings \in LoadedPostings
    /\ index = <<>>
    /\ pc = "query"
    /\ IdleMerge
    /\ IdleCodec
    /\ IdleIndex
    /\ IdleReaders
    /\ IdleRank
    /\ IdleBlock

\* run_query: result = query_func(postings)
RunQuery(query_func, r) ==
    /\ pc = "query"
    /\ answer' = [op |-> query_func, before |-> postings, val |-> r.result]
    /\ postings' = r.postings
    /\ pc' = "answered"
    /\ UNCHANGED <<p1, p2, skip_idx1, skip_idx2, index, codecVars, indexVars,
                   readerVars, rankVars, blockVars>>

Q1Strategy1 == RunQuery("q1_strategy1", q1_strategy1(postings))
Q1Strategy2 == RunQuery("q1_strategy2", q1_strategy2(postings))
Q2Strategy1 == RunQuery("q2_strategy1", q2_strategy1(postings))
Q2Strategy2 == RunQuery("q2_strategy2", q2_strategy2(postings))
Q3Strategy1 == RunQuery("q3_strategy1", q3_strategy1(postings))
Q3Strategy2 == RunQuery("q3_strategy2", q3_strategy2(postings))

NextBool ==
    \/ Q1Strategy1
    \/ Q1Strategy2
    \/ Q2Strategy1
    \/ Q2Strategy2
    \/ Q3Strategy1
    \/ Q3Strategy2
    \/ \E ts \in BoolTermLists : SearchAnd(ts)
    \/ \E ts \in BoolTermLists : SearchOr(ts)

SpecBool == InitBool /\ [][NextBool]_vars

\* C13: for every postings mapping the two strategies of
\* 'free AND (social OR hiking OR party) AND NOT online' return the same
\* list: AND distributed into each OR branch then union then difference
\* (q2_strategy1) equals union first, then AND, then difference (q2_strategy2).
C13_Q2StrategiesAgree ==
    /\ answer.op = "q2_strategy1" => answer.val = q2_strategy2(answer.before).result
    /\ answer.op = "q2_strategy2" => answer.val = q2_strategy1(answer.before).result

\* free meets two different OR branches in different documents, and online
\* removes one of the matches.
C13_Witness ==
    /\ answer.op = "q2_strategy1"
    /\ HasTerm(answer.before, free) /\ HasTerm(answer.before, online)
    /\ HasTerm(answer.before, social) /\ HasTerm(answer.before, party)
    /\ DocsOf(answer.before, social) = <<1>>
    /\ DocsOf(answer.before, party) = <<2>>
    /\ DocsOf(answer.before, free) = <<1, 2>>
    /\ DocsOf(answer.before, online) = <<1>>
    /\ answer.val = <<2>>


\* C14: no query operation mutates the index state: across every call of a
\* query function, also one whose terms are absent from the index, the
\* postings mapping keeps its key set and its lists.
C14_QueriesLeavePostingsUnchanged == [][pc = "query" => postings' = postings]_vars


(***************************************************************************)
(* Two readers running merges over the same posting lists.  Each reader    *)
(* has its own frame (the locals of the function it runs: the cursors and  *)
(* the result list); the lists p1 and p2 and the skip indexes built over   *)
(* them are shared.  One step of a reader is one iteration of its while    *)
(* loop, or the loop exit with the statements up to the return.  The field *)
(* interleaved records that the other reader was inside its loop at some   *)
(* step of this one.                                                       *)
(***************************************************************************)
ReaderIds == {1, 2}
MergeOps == {"intersect", "union", "difference", "intersect_with_skiplist"}
ReaderLists == {SortedSeq(S) : S \in SUBSET (1..MaxReaderDocId)}

IdleFrame ==
    [op |-> "none", args |-> <<>>, i |-> 0, j |-> 0, answer |-> <<>>,
     interleaved |-> FALSE, pc |-> "idle"]

\* One iteration of intersect's loop that advances the wrong cursor.
intersect_step_wrong_cursor(f, l1, l2) ==
    IF f.i < Len(l1) /\ f.j < Len(l2)
    THEN IF l1[f.i + 1] = l2[f.j + 1]
         THEN [f EXCEPT !.answer = Append(@, l1[f.i + 1]), !.i = @ + 1, !.j = @ + 1]
         ELSE IF l1[f.i + 1] < l2[f.j + 1]
              THEN [f EXCEPT !.j = @ + 1]
              ELSE [f EXCEPT !.i = @ + 1]
    ELSE [f EXCEPT !.pc = "done"]

intersect_step(f, l1, l2) ==
    IF f.i < Len(l1) /\ f.j < Len(l2)
    THEN IF l1[f.i + 1] = l2[f.j + 1]
         THEN [f EXCEPT !.answer = Append(@, l1[f.i + 1]), !.i = @ + 1, !.j = @ + 1]
         ELSE IF l1[f.i + 1] < l2[f.j + 1]
              THEN [f EXCEPT !.i = @ + 1]
              ELSE [f EXCEPT !.j = @ + 1]
    ELSE [f EXCEPT !.pc = "done"]

union_step(f, l1, l2) ==
    IF f.i < Len(l1) /\ f.j < Len(l2)
    THEN IF l1[f.i + 1] = l2[f.j + 1]
         THEN [f EXCEPT !.answer = Append(@, l1[f.i + 1]), !.i = @ + 1, !.j = @ + 1]
         ELSE IF l1[f.i + 1] < l2[f.j + 1]
              THEN [f EXCEPT !.answer = Append(@, l1[f.i + 1]), !.i = @ + 1]
              ELSE [f EXCEPT !.answer = Append(@, l2[f.j + 1]), !.j = @ + 1]
    ELSE [f EXCEPT !.answer = (@ \o Tail0(l1, f.i)) \o Tail0(l2, f.j), !.pc = "done"]

difference_step(f, l1, l2) ==
    IF f.i < Len(l1) /\ f.j < Len(l2)
    THEN IF l1[f.i + 1] = l2[f.j + 1]
         THEN [f EXCEPT !.i = @ + 1, !.j = @ + 1]
         ELSE IF l1[f.i + 1] < l2[f.j + 1]
              THEN [f EXCEPT !.answer = Append(@, l1[f.i + 1]), !.i = @ + 1]
              ELSE [f EXCEPT !.j = @ + 1]
    ELSE [f EXCEPT !.answer = @ \o Tail0(l1, f.i), !.pc = "done"]

\* One iteration of the skipping sweep that takes every pointer it finds,
\* without comparing the target's id with the other list's current id.
skiplist_step_unchecked_jump(f, idx1, idx2) ==
    LET docs1 == idx1.doc_ids
        docs2 == idx2.doc_ids
    IN IF f.i < Len(docs1) /\ f.j < Len(docs2)
       THEN LET doc1 == docs1[f.i + 1]
                doc2 == docs2[f.j + 1]
            IN IF doc1 = doc2
               THEN [f EXCEPT !.answer = Append(@, doc1), !.i = @ + 1, !.j = @ + 1]
               ELSE IF doc1 < doc2
                    THEN IF f.i \in DOMAIN idx1.skip_pointers
                         THEN [f EXCEPT !.i = idx1.skip_pointers[f.i]]
                         ELSE [f EXCEPT !.i = @ + 1]
                    ELSE IF f.j \in DOMAIN idx2.skip_pointers
                         THEN [f EXCEPT !.j = idx2.skip_pointers[f.j]]
                         ELSE [f EXCEPT !.j = @ + 1]
       ELSE [f EXCEPT !.pc = "done"]

skiplist_step(f, idx1, idx2) ==
    LET docs1 == idx1.doc_ids
        docs2 == idx2.doc_ids
    IN IF f.i < Len(docs1) /\ f.j < Len(docs2)
       THEN LET doc1 == docs1[f.i + 1]
                doc2 == docs2[f.j + 1]
            IN IF doc1 = doc2
               THEN [f EXCEPT !.answer = Append(@, doc1), !.i = @ + 1, !.j = @ + 1]
               ELSE IF doc1 < doc2
                    THEN IF f.i \in DOMAIN idx1.skip_pointers
                            /\ docs1[idx1.skip_pointers[f.i] + 1] <= doc2
                         THEN [f EXCEPT !.i = idx1.skip_pointers[f.i]]
                         ELSE [f EXCEPT !.i = @ + 1]
                    ELSE IF f.j \in DOMAIN idx2.skip_pointers
                            /\ docs2[idx2.skip_pointers[f.j] + 1] <= doc1
                         THEN [f EXCEPT !.j = idx2.skip_pointers[f.j]]
                         ELSE [f EXCEPT !.j = @ + 1]
       ELSE [f EXCEPT !.pc = "done"]

InitReaders ==
    /\ p1 \in ReaderLists
    /\ p2 \in ReaderLists
    /\ \E s \in 1..MaxSkipStep :
          /\ skip_idx1 = SkipListIndex("t1", p1, s)
          /\ skip_idx2 = SkipListIndex("t2", p2, s)
    /\ answer = NoAnswer
    /\ readers = [r \in ReaderIds |-> IdleFrame]
    /\ pc = "query"
    /\ IdleCodec
    /\ IdleIndex
    /\ IdleSearch
    /\ IdleRank
    /\ IdleBlock

\* Reader r calls a merge on the shared lists: i, j = 0, 0 and answer = [].
ReaderCall(r, op) ==
    /\ readers[r].pc = "idle"
    /\ readers' = [readers EXCEPT ![r] =
                      [op |-> op, args |-> <<p1, p2>>, i |-> 0, j |-> 0, answer |-> <<>>,
                       interleaved |-> FALSE, pc |-> "loop"]]
    /\ UNCHANGED <<mergeVars, pc, codecVars, indexVars, searchVars, rankVars, blockVars>>

\* Reader r runs one step of its call, reading the shared lists.
ReaderStep(r) ==
    /\ readers[r].pc = "loop"
    /\ LET f == [readers[r] EXCEPT !.interleaved =
                    @ \/ \E o \in ReaderIds \ {r} : readers[o].pc = "loop"]
       IN readers' = [readers EXCEPT ![r] =
              CASE f.op = "intersect" -> intersect_step(f, p1, p2)
                [] f.op = "union" -> union_step(f, p1, p2)
                [] f.op = "difference" -> difference_step(f, p1, p2)
                [] f.op = "intersect_with_skiplist" -> skiplist_step(f, skip_idx1, skip_idx2)]
    /\ UNCHANGED <<mergeVars, pc, codecVars, indexVars, searchVars, rankVars, blockVars>>

NextReaders ==
    \/ \E r \in ReaderIds, op \in MergeOps : ReaderCall(r, op)
    \/ \E r \in ReaderIds : ReaderStep(r)

SpecReaders == InitReaders /\ [][NextReaders]_vars

\* What the merge returns when it runs alone on the two lists.
RunAlone(op, l1, l2, idx1, idx2) ==
    CASE op = "intersect" -> intersect(l1, l2)
      [] op = "union" -> union(l1, l2)
      [] op = "difference" -> difference(l1, l2)
      [] op = "intersect_with_skiplist" -> intersect_with_skiplist(idx1, idx2)

\* C15: when two readers run merges over the same shared posting lists with
\* their loop steps interleaved in any order, each reader returns what the
\* merge returns when run alone, and the shared lists are as they were when
\* the reader was called.
C15_InterleavedReadersAgree ==
    \A r \in ReaderIds :
        readers[r].pc = "done"
            => /\ readers[r].answer = RunAlone(readers[r].op, p1, p2, skip_idx1, skip_idx2)
               /\ readers[r].args = <<p1, p2>>
               /\ skip_idx1.doc_ids = p1
               /\ skip_idx2.doc_ids = p2

\* Both readers have returned from different merges whose steps were
\* interleaved; the skipping reader took a jump.
C15_Witness ==
    /\ readers[1].pc = "done" /\ readers[2].pc = "done"
    /\ readers[1].interleaved /\ readers[2].interleaved
    /\ readers[1].op = "intersect_with_skiplist"
    /\ readers[2].op = "union"
    /\ p1 = <<1, 2, 3>> /\ p2 = <<3>>
    /\ skip_idx1.skip_step = 2
    /\ readers[1].answer = <<3>>
    /\ readers[2].answer = <<1, 2, 3>>


(***************************************************************************)
(* Python floats.  A float is an IEEE 754 binary64 number, held as the     *)
(* record [s, e, m] of the value (-1)^s * m * 2^e: m is a natural number   *)
(* of exactly 53 bits (or zero, with e = 0), written as its digits in base *)
(* 2^14, the least significant digit first and no leading zero digit.      *)
(* Every operation rounds the exact result to the nearest float, ties to   *)
(* the even mantissa, as the hardware does.  The weights of a ranking are  *)
(* far from the overflow and underflow thresholds, which are not modelled. *)
(***************************************************************************)
TwoTo(k) == 2^k
Base == TwoTo(14)

Digit(a, i) == IF i <= Len(a) THEN a[i] ELSE 0

RECURSIVE Trim(_)
Trim(a) ==
    IF a = <<>> \/ a[Len(a)] # 0 THEN a ELSE Trim(SubSeq(a, 1, Len(a) - 1))

\* The digits of the number whose k-th digit position holds cols[k] (any
\* natural number), carries propagated from position k on.
RECURSIVE Carry(_, _, _)
Carry(cols, k, c) ==
    IF k > Len(cols)
    THEN IF c = 0 THEN <<>> ELSE <<c % Base>> \o Carry(cols, k, c \div Base)
    ELSE <<(cols[k] + c) % Base>> \o Carry(cols, k + 1, (cols[k] + c) \div Base)

NatOf(n) == IF n = 0 THEN <<>> ELSE Carry(<<n>>, 1, 0)

NAdd(a, b) ==
    Carry([i \in 1..Max(Len(a), Len(b)) |-> Digit(a, i) + Digit(b, i)], 1, 0)

\* a - b for a >= b.
RECURSIVE Borrow(_, _, _, _)
Borrow(a, b, k, br) ==
    IF k > Len(a) THEN <<>>
    ELSE IF a[k] - Digit(b, k) - br < 0
    THEN <<a[k] - Digit(b, k) - br + Base>> \o Borrow(a, b, k + 1, 1)
    ELSE <<a[k] - Digit(b, k) - br>> \o Borrow(a, b, k + 1, 0)

NSub(a, b) == Trim(Borrow(a, b, 1, 0))

\* -1, 0 or 1 as a < b, a = b or a > b.
RECURSIVE CmpFrom(_, _, _)
CmpFrom(a, b, k) ==
    IF k = 0 THEN 0
    ELSE IF a[k] < b[k] THEN -1
    ELSE IF a[k] > b[k] THEN 1
    ELSE CmpFrom(a, b, k - 1)

NCmp(a, b) ==
    IF Len(a) < Len(b) THEN -1
    ELSE IF Len(a) > Len(b) THEN 1
    ELSE CmpFrom(a, b, Len(a))

\* a * b for mantissas (at most four digits each).
RECURSIVE ColumnSum(_, _, _, _)
ColumnSum(a, b, k, i) ==
    IF i > Len(a) THEN 0
    ELSE (IF k + 1 - i >= 1 /\ k + 1 - i <= Len(b) THEN a[i] * b[k + 1 - i] ELSE 0)
         + ColumnSum(a, b, k, i + 1)

NMul(a, b) ==
    IF a = <<>> \/ b = <<>> THEN <<>>
    ELSE Carry([k \in 1..(Len(a) + Len(b) - 1) |-> ColumnSum(a, b, k, 1)], 1, 0)

\* a * 2^k and floor(a / 2^k).
NShl(a, k) ==
    IF a = <<>> THEN <<>>
    ELSE [i \in 1..(k \div 14) |-> 0]
         \o Carry([i \in 1..Len(a) |-> a[i] * TwoTo(k % 14)], 1, 0)

NShr(a, k) ==
    IF k \div 14 >= Len(a) THEN <<>>
    ELSE Trim([i \in 1..(Len(a) - (k \div 14)) |->
                 (a[i + (k \div 14)] \div TwoTo(k % 14))
                 + (Digit(a, i + (k \div 14) + 1) % TwoTo(k % 14)) * TwoTo(14 - (k % 14))])

RECURSIVE BitLenOfDigit(_)
BitLenOfDigit(x) == IF x = 0 THEN 0 ELSE 1 + BitLenOfDigit(x \div 2)

NBitLen(a) == IF a = <<>> THEN 0 ELSE 14 * (Len(a) - 1) + BitLenOfDigit(a[Len(a)])

\* Bit i of a, bit 0 being the least significant, and whether a has a bit
\* set below bit i.
NBit(a, i) == (Digit(a, i \div 14 + 1) \div TwoTo(i % 14)) % 2

NBitsBelow(a, i) ==
    \/ \E j \in 1..(i \div 14) : Digit(a, j) # 0
    \/ Digit(a, i \div 14 + 1) % TwoTo(i % 14) # 0

\* a * c for a digit c.
NMulDigit(a, c) ==
    IF c = 0 THEN <<>> ELSE Carry([i \in 1..Len(a) |-> a[i] * c], 1, 0)

\* The largest digit c with c * b <= r, for r < b * Base and a divisor b
\* whose first digit is at least Base / 2: the estimate from the first
\* digits is at most two too large.
RECURSIVE Lower(_, _, _)
Lower(c, r, b) == IF NCmp(NMulDigit(b, c), r) > 0 THEN Lower(c - 1, r, b) ELSE c

QuotientDigit(r, b) ==
    Lower(Min(Base - 1,
              (Digit(r, Len(b) + 1) * Base + Digit(r, Len(b))) \div b[Len(b)]),
          r, b)

\* Long division.  The state st of the loop holds the number k of digits of
\* a still to bring down, the quotient q and the remainder r of the digits
\* above them; a step takes digit k below the remainder, which gives one
\* more digit of the quotient.
DivisionStep(a, b, st) ==
    LET r1 == Trim(<<a[st.k]>> \o st.r)
        c == QuotientDigit(r1, b)
    IN [k |-> st.k - 1, q |-> Trim(<<c>> \o st.q), r |-> NSub(r1, NMulDigit(b, c))]

RECURSIVE LongDivision(_, _, _)
LongDivision(a, b, st) ==
    IF st.k = 0 THEN st ELSE LongDivision(a, b, DivisionStep(a, b, st))

Divide(a, b) == LongDivision(a, b, [k |-> Len(a), q |-> <<>>, r |-> <<>>])

\* [q |-> floor(a / b), r |-> zero iff b divides a], for b # 0: both are
\* shifted so that the first digit of the divisor is at least Base / 2.
NDivMod(a, b) ==
    Divide(NShl(a, 14 - BitLenOfDigit(b[Len(b)])), NShl(b, 14 - BitLenOfDigit(b[Len(b)])))

\* floor(sqrt(n)) for an int 0 <= n < Base^2, and for a natural number n:
\* Newton's iteration from a start above the root, until it stops
\* decreasing.
RECURSIVE IntNewton(_, _)
IntNewton(n, r) ==
    IF (r + n \div r) \div 2 >= r THEN r ELSE IntNewton(n, (r + n \div r) \div 2)

IntSqrt(n) == IF n = 0 THEN 0 ELSE IntNewton(n, Base)

RECURSIVE Newton(_, _)
Descend(n, r, next) == IF NCmp(next, r) >= 0 THEN r ELSE Newton(n, next)

Newton(n, r) == Descend(n, r, NShr(NAdd(r, NDivMod(n, r).q), 1))

\* The start of the iteration: the root of the first 27 or 28 bits of n,
\* rounded up and shifted back, drop being the number of bits left out.
NewtonStart(n, drop) ==
    NShl(NatOf(IntSqrt(Digit(NShr(n, drop), 2) * Base + Digit(NShr(n, drop), 1)) + 1),
         drop \div 2)

WithRemainder(n, root) == [res |-> root, n |-> NSub(n, NMul(root, root))]

\* [res |-> floor(sqrt(n)), n |-> n - res^2]
NSqrt(n) ==
    IF n = <<>> THEN [res |-> <<>>, n |-> <<>>]
    ELSE WithRemainder(n, Newton(n, NewtonStart(n,
             IF NBitLen(n) <= 28 THEN 0 ELSE 2 * ((NBitLen(n) - 27) \div 2))))

Zero == [s |-> 0, e |-> 0, m |-> <<>>]
IsZero(x) == x.m = <<>>

\* The mantissa n, of 53 or 54 bits, brought to 53 bits: 54 bits are a
\* power of two, which rounding up has reached.
Normal(s, n, e) ==
    IF NBitLen(n) > 53 THEN [s |-> s, e |-> e + 1, m |-> NShr(n, 1)]
    ELSE [s |-> s, e |-> e, m |-> n]

\* Whether dropping the last k bits of n rounds up: the dropped bits are
\* more than half a unit, or half a unit and the kept bits are odd.
RoundsUp(n, k, sticky) ==
    NBit(n, k - 1) = 1 /\ (sticky \/ NBitsBelow(n, k - 1) \/ NBit(n, k) = 1)

\* The rounding of n # 0 that drops k bits (adds -k zero bits if k <= 0).
RoundTo(s, n, e, sticky, k) ==
    IF k <= 0 THEN [s |-> s, e |-> e + k, m |-> NShl(n, -k)]
    ELSE Normal(s, IF RoundsUp(n, k, sticky) THEN NAdd(NShr(n, k), <<1>>) ELSE NShr(n, k),
                e + k)

\* The float nearest to (-1)^s * (n + f) * 2^e, where 0 < f < 1 if sticky and
\* f = 0 otherwise; n has more than 53 bits whenever sticky.
Round(s, n, e, sticky) ==
    IF n = <<>> THEN Zero ELSE RoundTo(s, n, e, sticky, NBitLen(n) - 53)

\* float(n) for an int n.
FloatOfInt(n) ==
    Round(IF n < 0 THEN 1 ELSE 0, NatOf(IF n < 0 THEN -n ELSE n), 0, FALSE)

\* x * y
FloatMul(x, y) ==
    IF IsZero(x) \/ IsZero(y) THEN [Zero EXCEPT !.s = (x.s + y.s) % 2]
    ELSE Round((x.s + y.s) % 2, NMul(x.m, y.m), x.e + y.e, FALSE)

\* x + y, for |x| >= |y| > 0.  A y more than 60 binary places below x is
\* below the rounding position of x: it only breaks ties.
AddOrdered(x, y) ==
    Round(x.s,
          IF x.e - y.e > 60
          THEN IF x.s = y.s THEN NShl(x.m, 2) ELSE NSub(NShl(x.m, 2), <<1>>)
          ELSE IF x.s = y.s THEN NAdd(NShl(x.m, x.e - y.e), y.m)
          ELSE NSub(NShl(x.m, x.e - y.e), y.m),
          IF x.e - y.e > 60 THEN x.e - 2 ELSE y.e,
          x.e - y.e > 60)

MagnitudeLess(x, y) == x.e < y.e \/ (x.e = y.e /\ NCmp(x.m, y.m) < 0)

FloatAdd(x, y) ==
    IF IsZero(x) /\ IsZero(y) THEN [Zero EXCEPT !.s = x.s * y.s]
    ELSE IF IsZero(x) THEN y
    ELSE IF IsZero(y) THEN x
    ELSE AddOrdered(IF MagnitudeLess(x, y) THEN y ELSE x,
                    IF MagnitudeLess(x, y) THEN x ELSE y)

RoundQuotient(s, qr, e) == Round(s, qr.q, e, qr.r # <<>>)

\* x / y: ZeroDivisionError when y is zero.
FloatDiv(x, y) ==
    IF IsZero(y) THEN [status |-> "ZeroDivisionError", val |-> Zero]
    ELSE IF IsZero(x) THEN [status |-> "ok", val |-> [Zero EXCEPT !.s = (x.s + y.s) % 2]]
    ELSE [status |-> "ok",
          val |-> RoundQuotient((x.s + y.s) % 2, NDivMod(NShl(x.m, 55), y.m),
                                x.e - y.e - 55)]

RoundRoot(sr, e) == Round(0, sr.res, e, sr.n # <<>>)

\* The root of x = m * 2^e, with the mantissa shifted by k places to make
\* the exponent even.
SqrtShifted(x, k) == RoundRoot(NSqrt(NShl(x.m, k)), (x.e - k) \div 2)

\* math.sqrt(x) for x >= 0.
FloatSqrt(x) ==
    IF IsZero(x) THEN x ELSE SqrtShifted(x, IF (x.e - 58) % 2 = 0 THEN 58 ELSE 57)

\* x < y, x == y, x > 0
FloatLess(x, y) ==
    IF IsZero(x) /\ IsZero(y) THEN FALSE
    ELSE IF IsZero(x) THEN y.s = 0
    ELSE IF IsZero(y) THEN x.s = 1
    ELSE IF x.s # y.s THEN x.s = 1
    ELSE IF x.s = 0 THEN MagnitudeLess(x, y)
    ELSE MagnitudeLess(y, x)

FloatEq(x, y) == ~FloatLess(x, y) /\ ~FloatLess(y, x)

(***************************************************************************)
(* src/lab1/5_B.py: the vector-space ranker.                               *)
(* A dict is a sequence of entries in insertion order: the index holds     *)
(* [term, docs] entries with docs a sequence of [doc, positions],          *)
(* doc_lengths holds [doc, length], a vector {term: weight} holds          *)
(* [term, weight] and doc_vectors holds [doc, vector].  A weight is a      *)
(* float; the int 0 that the code stores or returns in some branches is    *)
(* the float zero, to which Python's ==, > and arithmetic treat it as      *)
(* equal.                                                                  *)
(***************************************************************************)
\* math.log10(x) of the C library, for the quotients x = p / q of positive
\* ints up to 8: term_count / total_terms and total_docs / doc_freq.
Log10Table ==
    <<
      \* log10(1/8)
      [x |-> [s |-> 0, e |-> -55, m |-> <<0, 0, 0, 1024>>],
       y |-> [s |-> 1, e |-> -53, m |-> <<14078, 9148, 8655, 1849>>]],
      \* log10(1/7)
      [x |-> [s |-> 0, e |-> -55, m |-> <<9362, 2340, 4681, 1170>>],
       y |-> [s |-> 1, e |-> -53, m |-> <<3136, 11747, 12464, 1730>>]],
      \* log10(1/6)
      [x |-> [s |-> 0, e |-> -55, m |-> <<5461, 5461, 5461, 1365>>],
       y |-> [s |-> 1, e |-> -53, m |-> <<10238, 3550, 10711, 1593>>]],
      \* log10(1/5)
      [x |-> [s |-> 0, e |-> -55, m |-> <<6554, 9830, 6553, 1638>>],
       y |-> [s |-> 1, e |-> -53, m |-> <<768, 7873, 8037, 1431>>]],
      \* log10(1/4)
      [x |-> [s |-> 0, e |-> -54, m |-> <<0, 0, 0, 1024>>],
       y |-> [s |-> 1, e |-> -53, m |-> <<14847, 637, 309, 1233>>]],
      \* log10(2/7)
      [x |-> [s |-> 0, e |-> -54, m |-> <<9362, 2340, 4681, 1170>>],
       y |-> [s |-> 1, e |-> -53, m |-> <<3904, 3236, 4118, 1114>>]],
      \* log10(1/3)
      [x |-> [s |-> 0, e |-> -54, m |-> <<5461, 5461, 5461, 1365>>],
       y |-> [s |-> 1, e |-> -54, m |-> <<5630, 6463, 4729, 1954>>]],
      \* log10(3/8)
      [x |-> [s |-> 0, e |-> -54, m |-> <<0, 0, 0, 1536>>],
       y |-> [s |-> 1, e |-> -54, m |-> <<6144, 11834, 12581, 1744>>]],
      \* log10(2/5)
      [x |-> [s |-> 0, e |-> -54, m |-> <<6554, 9830, 6553, 1638>>],
       y |-> [s |-> 1, e |-> -54, m |-> <<3074, 15108, 15765, 1629>>]],
      \* log10(3/7)
      [x |-> [s |-> 0, e |-> -54, m |-> <<14043, 11702, 7021, 1755>>],
       y |-> [s |-> 1, e |-> -54, m |-> <<642, 647, 3816, 1507>>]],
      \* log10(1/2)
      [x |-> [s |-> 0, e |-> -53, m |-> <<0, 0, 0, 1024>>],
       y |-> [s |-> 1, e |-> -54, m |-> <<14847, 637, 309, 1233>>]],
      \* log10(4/7)
      [x |-> [s |-> 0, e |-> -53, m |-> <<9362, 2340, 4681, 1170>>],
       y |-> [s |-> 1, e |-> -55, m |-> <<2306, 11669, 15854, 1990>>]],
      \* log10(3/5)
      [x |-> [s |-> 0, e |-> -53, m |-> <<13107, 3276, 13107, 1228>>],
       y |-> [s |-> 1, e |-> -55, m |-> <<8200, 2181, 6307, 1817>>]],
      \* log10(5/8)
      [x |-> [s |-> 0, e |-> -53, m |-> <<0, 0, 0, 1280>>],
       y |-> [s |-> 1, e |-> -55, m |-> <<4088, 5103, 2472, 1672>>]],
      \* log10(2/3)
      [x |-> [s |-> 0, e |-> -53, m |-> <<5461, 5461, 5461, 1365>>],
       y |-> [s |-> 1, e |-> -55, m |-> <<14333, 11650, 8840, 1442>>]],
      \* log10(5/7)
      [x |-> [s |-> 0, e |-> -53, m |-> <<11703, 7021, 14043, 1462>>],
       y |-> [s |-> 1, e |-> -55, m |-> <<9466, 15496, 1324, 1197>>]],
      \* log10(3/4)
      [x |-> [s |-> 0, e |-> -53, m |-> <<0, 0, 0, 1536>>],
       y |-> [s |-> 1, e |-> -56, m |-> <<14338, 12017, 16322, 2046>>]],
      \* log10(4/5)
      [x |-> [s |-> 0, e |-> -53, m |-> <<6554, 9830, 6553, 1638>>],
       y |-> [s |-> 1, e |-> -56, m |-> <<2059, 8729, 12675, 1587>>]],
      \* log10(5/6)
      [x |-> [s |-> 0, e |-> -53, m |-> <<10923, 10922, 10922, 1706>>],
       y |-> [s |-> 1, e |-> -56, m |-> <<10219, 14572, 5005, 1297>>]],
      \* log10(6/7)
      [x |-> [s |-> 0, e |-> -53, m |-> <<14043, 11702, 7021, 1755>>],
       y |-> [s |-> 1, e |-> -56, m |-> <<8715, 36, 14028, 1096>>]],
      \* log10(7/8)
      [x |-> [s |-> 0, e |-> -53, m |-> <<0, 0, 0, 1792>>],
       y |-> [s |-> 1, e |-> -57, m |-> <<11252, 7578, 4589, 1900>>]],
      \* log10(1/1)
      [x |-> [s |-> 0, e |-> -52, m |-> <<0, 0, 0, 1024>>],
       y |-> [s |-> 0, e |-> 0, m |-> <<>>]],
      \* log10(8/7)
      [x |-> [s |-> 0, e |-> -52, m |-> <<9362, 2340, 4681, 1170>>],
       y |-> [s |-> 0, e |-> -57, m |-> <<11249, 7578, 4589, 1900>>]],
      \* log10(7/6)
      [x |-> [s |-> 0, e |-> -52, m |-> <<10923, 10922, 10922, 1194>>],
       y |-> [s |-> 0, e |-> -56, m |-> <<8715, 36, 14028, 1096>>]],
      \* log10(6/5)
      [x |-> [s |-> 0, e |-> -52, m |-> <<13107, 3276, 13107, 1228>>],
       y |-> [s |-> 0, e |-> -56, m |-> <<10219, 14572, 5005, 1297>>]],
      \* log10(5/4)
      [x |-> [s |-> 0, e |-> -52, m |-> <<0, 0, 0, 1280>>],
       y |-> [s |-> 0, e |-> -56, m |-> <<2061, 8729, 12675, 1587>>]],
      \* log10(4/3)
      [x |-> [s |-> 0, e |-> -52, m |-> <<5461, 5461, 5461, 1365>>],
       y |-> [s |-> 0, e |-> -56, m |-> <<14337, 12017, 16322, 2046>>]],
      \* log10(7/5)
      [x |-> [s |-> 0, e |-> -52, m |-> <<9830, 6553, 9830, 1433>>],
       y |-> [s |-> 0, e |-> -55, m |-> <<9466, 15496, 1324, 1197>>]],
      \* log10(3/2)
      [x |-> [s |-> 0, e |-> -52, m |-> <<0, 0, 0, 1536>>],
       y |-> [s |-> 0, e |-> -55, m |-> <<14332, 11650, 8840, 1442>>]],
      \* log10(8/5)
      [x |-> [s |-> 0, e |-> -52, m |-> <<6554, 9830, 6553, 1638>>],
       y |-> [s |-> 0, e |-> -55, m |-> <<4089, 5103, 2472, 1672>>]],
      \* log10(5/3)
      [x |-> [s |-> 0, e |-> -52, m |-> <<10923, 10922, 10922, 1706>>],
       y |-> [s |-> 0, e |-> -55, m |-> <<8200, 2181, 6307, 1817>>]],
      \* log10(7/4)
      [x |-> [s |-> 0, e |-> -52, m |-> <<0, 0, 0, 1792>>],
       y |-> [s |-> 0, e |-> -55, m |-> <<2304, 11669, 15854, 1990>>]],
      \* log10(2/1)
      [x |-> [s |-> 0, e |-> -51, m |-> <<0, 0, 0, 1024>>],
       y |-> [s |-> 0, e |-> -54, m |-> <<14847, 637, 309, 1233>>]],
      \* log10(7/3)
      [x |-> [s |-> 0, e |-> -51, m |-> <<10923, 10922, 10922, 1194>>],
       y |-> [s |-> 0, e |-> -54, m |-> <<642, 647, 3816, 1507>>]],
      \* log10(5/2)
      [x |-> [s |-> 0, e |-> -51, m |-> <<0, 0, 0, 1280>>],
       y |-> [s |-> 0, e |-> -54, m |-> <<3074, 15108, 15765, 1629>>]],
      \* log10(8/3)
      [x |-> [s |-> 0, e |-> -51, m |-> <<5461, 5461, 5461, 1365>>],
       y |-> [s |-> 0, e |-> -54, m |-> <<6143, 11834, 12581, 1744>>]],
      \* log10(3/1)
      [x |-> [s |-> 0, e |-> -51, m |-> <<0, 0, 0, 1536>>],
       y |-> [s |-> 0, e |-> -54, m |-> <<5629, 6463, 4729, 1954>>]],
      \* log10(7/2)
      [x |-> [s |-> 0, e |-> -51, m |-> <<0, 0, 0, 1792>>],
       y |-> [s |-> 0, e |-> -53, m |-> <<3904, 3236, 4118, 1114>>]],
      \* log10(4/1)
      [x |-> [s |-> 0, e |-> -50, m |-> <<0, 0, 0, 1024>>],
       y |-> [s |-> 0, e |-> -53, m |-> <<14847, 637, 309, 1233>>]],
      \* log10(5/1)
      [x |-> [s |-> 0, e |-> -50, m |-> <<0, 0, 0, 1280>>],
       y |-> [s |-> 0, e |-> -53, m |-> <<769, 7873, 8037, 1431>>]],
      \* log10(6/1)
      [x |-> [s |-> 0, e |-> -50, m |-> <<0, 0, 0, 1536>>],
       y |-> [s |-> 0, e |-> -53, m |-> <<10238, 3550, 10711, 1593>>]],
      \* log10(7/1)
      [x |-> [s |-> 0, e |-> -50, m |-> <<0, 0, 0, 1792>>],
       y |-> [s |-> 0, e |-> -53, m |-> <<3135, 11747, 12464, 1730>>]],
      \* log10(8/1)
      [x |-> [s |-> 0, e |-> -49, m |-> <<0, 0, 0, 1024>>],
       y |-> [s |-> 0, e |-> -53, m |-> <<14078, 9148, 8655, 1849>>]]
    >>
Lookup(table, x) == table[CHOOSE i \in 1..Len(table) : table[i].x = x].y

math_log10(x) == Lookup(Log10Table, x)

\* a / b for ints a >= 0 and b > 0.
TrueDiv(a, b) == FloatDiv(FloatOfInt(a), FloatOfInt(b)).val

\* value ** 2: pow(value, 2.0) of the C library, which returns the correctly
\* rounded square for every weight the model computes.
Square(x) == FloatMul(x, x)

\* sum(values): the running total starts at the int 0 and the values are
\* added one by one in the order of the dict, each addition rounded (the
\* plain left-to-right sum of CPython 3.11, which the repository runs on).
\* SumUpTo is the running total after the first k values.
RECURSIVE SumUpTo(_, _)
SumUpTo(values, k) ==
    IF k = 0 THEN Zero ELSE FloatAdd(SumUpTo(values, k - 1), values[k])

FloatSum(values) == SumUpTo(values, Len(values))

calculate_tf(term_count, total_terms) ==
    IF total_terms > 0
    THEN FloatAdd(FloatOfInt(1), math_log10(TrueDiv(term_count, total_terms)))
    ELSE Zero

calculate_idf(total_docs, doc_freq) == math_log10(TrueDiv(total_docs, doc_freq))

\* main: inverted_index[term][doc_id] = posting.get("positions", []) for the
\* postings of inverted_index.json.
simplified_index(inv_index_raw) ==
    [k \in 1..Len(inv_index_raw) |->
        [term |-> inv_index_raw[k].term,
         docs |-> [n \in 1..Len(inv_index_raw[k].postings) |->
                    [doc |-> inv_index_raw[k].postings[n].doc,
                     positions |-> inv_index_raw[k].postings[n].positions]]]]

\* doc_lengths[doc_id] += more, on a defaultdict(int).
AddLength(lengths, doc_id, more) ==
    IF KeyIndex(lengths, "doc", doc_id) = 0
    THEN Append(lengths, [doc |-> doc_id, length |-> more])
    ELSE [lengths EXCEPT ![KeyIndex(lengths, "doc", doc_id)].length = @ + more]

\* The loops of calculate_doc_lengths.  The state st of a loop holds the
\* position it has reached (n in the postings of a term, k in the index)
\* and the doc_lengths built so far.
RECURSIVE AddLengths(_, _)
AddLengths(docs, st) ==
    IF st.n > Len(docs) THEN st.lengths
    ELSE AddLengths(docs,
                    [n |-> st.n + 1,
                     lengths |-> AddLength(st.lengths, docs[st.n].doc,
                                           Len(docs[st.n].positions))])

RECURSIVE DocLengthsFrom(_, _)
DocLengthsFrom(inv, st) ==
    IF st.k > Len(inv) THEN st.lengths
    ELSE DocLengthsFrom(inv,
                        [k |-> st.k + 1,
                         lengths |-> AddLengths(inv[st.k].docs,
                                                [n |-> 1, lengths |-> st.lengths])])

calculate_doc_lengths(inv) == DocLengthsFrom(inv, [k |-> 1, lengths |-> <<>>])

\* doc_lengths.get(doc_id, 1)
LengthOf(lengths, doc_id) ==
    IF KeyIndex(lengths, "doc", doc_id) = 0 THEN 1
    ELSE lengths[KeyIndex(lengths, "doc", doc_id)].length

\* vector[term] = weight
SetWeight(vector, term, weight) ==
    IF KeyIndex(vector, "term", term) = 0
    THEN Append(vector, [term |-> term, weight |-> weight])
    ELSE [vector EXCEPT ![KeyIndex(vector, "term", term)].weight = weight]

\* doc_vectors[doc_id][term] = tfidf, on a defaultdict(dict).
SetDocWeight(vectors, doc_id, term, weight) ==
    IF KeyIndex(vectors, "doc", doc_id) = 0
    THEN Append(vectors, [doc |-> doc_id, vector |-> SetWeight(<<>>, term, weight)])
    ELSE [vectors EXCEPT ![KeyIndex(vectors, "doc", doc_id)].vector =
                              SetWeight(@, term, weight)]

\* tf * idf for a posting of doc_id.
Tfidf(posting, lengths, idf) ==
    FloatMul(calculate_tf(Len(posting.positions), LengthOf(lengths, posting.doc)), idf)

\* The loops of build_document_vectors, over the postings of one term and
\* over the terms of the index, with the doc_vectors built so far in the
\* state of the loop.
RECURSIVE TermVectors(_, _, _, _)
TermVectors(entry, lengths, idf, st) ==
    IF st.n > Len(entry.docs) THEN st.vectors
    ELSE TermVectors(entry, lengths, idf,
                     [n |-> st.n + 1,
                      vectors |-> SetDocWeight(st.vectors, entry.docs[st.n].doc, entry.term,
                                               Tfidf(entry.docs[st.n], lengths, idf))])

RECURSIVE DocumentVectorsFrom(_, _, _)
DocumentVectorsFrom(inv, lengths, st) ==
    IF st.k > Len(inv) THEN st.vectors
    ELSE DocumentVectorsFrom(inv, lengths,
             [k |-> st.k + 1,
              vectors |-> TermVectors(inv[st.k], lengths,
                                      calculate_idf(Len(lengths), Len(inv[st.k].docs)),
                                      [n |-> 1, vectors |-> st.vectors])])

\* build_document_vectors with sample_size=None, as main calls it.
build_document_vectors(inv, lengths) ==
    DocumentVectorsFrom(inv, lengths, [k |-> 1, vectors |-> <<>>])

\* Counter(query_terms)[term]
CountOf(query_terms, term) ==
    Cardinality({k \in 1..Len(query_terms) : query_terms[k] = term})

\* The weight build_query_vector gives a term of the query.
QueryWeight(term, query_terms, inv, total_docs) ==
    IF HasTerm(inv, term)
    THEN FloatMul(calculate_tf(CountOf(query_terms, term), Len(query_terms)),
                  calculate_idf(total_docs, Len(DocsOf(inv, term))))
    ELSE Zero

\* The loop of build_query_vector, with the vector built so far in its state.
RECURSIVE QueryVectorFrom(_, _, _, _)
QueryVectorFrom(query_terms, inv, total_docs, st) ==
    IF st.k > Len(query_terms) THEN st.vector
    ELSE QueryVectorFrom(query_terms, inv, total_docs,
             [k |-> st.k + 1,
              vector |-> SetWeight(st.vector, query_terms[st.k],
                                   QueryWeight(query_terms[st.k], query_terms, inv,
                                               total_docs))])

build_query_vector(query_terms, inv, total_docs) ==
    QueryVectorFrom(query_terms, inv, total_docs, [k |-> 1, vector |-> <<>>])

\* doc_vector.get(term, 0)
Get(vector, term) ==
    IF KeyIndex(vector, "term", term) = 0 THEN Zero
    ELSE vector[KeyIndex(vector, "term", term)].weight

\* sum(doc_vector.get(term, 0) * value for term, value in query_vector.items())
DotProduct(doc_vector, query_vec) ==
    FloatSum([k \in 1..Len(query_vec) |->
                 FloatMul(Get(doc_vector, query_vec[k].term), query_vec[k].weight)])

\* math.sqrt(sum(value ** 2 for value in vector.values()))
Norm(vector) == FloatSqrt(FloatSum([k \in 1..Len(vector) |-> Square(vector[k].weight)]))

\* dot_product / (doc_norm * query_norm), whatever the norms are.
Quotient(dot_product, doc_norm, query_norm) ==
    FloatDiv(dot_product, FloatMul(doc_norm, query_norm))

\* The return of cosine_similarity from its three sums.
Similarity(dot_product, doc_norm, query_norm) ==
    IF IsZero(doc_norm) \/ IsZero(query_norm)
    THEN [status |-> "ok", val |-> Zero]
    ELSE Quotient(dot_product, doc_norm, query_norm)

\* The similarity without the test of the norms.
cosine_similarity_no_guard(doc_vector, query_vec) ==
    Quotient(DotProduct(doc_vector, query_vec), Norm(doc_vector), Norm(query_vec))

cosine_similarity(doc_vector, query_vec) ==
    Similarity(DotProduct(doc_vector, query_vec), Norm(doc_vector), Norm(query_vec))

\* A sort that puts the smaller similarities first.
RECURSIVE InsertByScoreAscending(_, _)
InsertByScoreAscending(sorted, x) ==
    IF sorted = <<>> THEN <<x>>
    ELSE IF ~FloatLess(x.score, sorted[Len(sorted)].score)
    THEN Append(sorted, x)
    ELSE Append(InsertByScoreAscending(SubSeq(sorted, 1, Len(sorted) - 1), x),
                sorted[Len(sorted)])

\* similarities.sort(key=lambda x: x[1], reverse=True): a stable sort, the
\* entries of equal similarity stay in the order they have in similarities.
RECURSIVE InsertByScore(_, _)
InsertByScore(sorted, x) ==
    IF sorted = <<>> THEN <<x>>
    ELSE IF ~FloatLess(sorted[Len(sorted)].score, x.score)
    THEN Append(sorted, x)
    ELSE Append(InsertByScore(SubSeq(sorted, 1, Len(sorted) - 1), x),
                sorted[Len(sorted)])

RECURSIVE SortByScore(_)
SortByScore(similarities) ==
    IF similarities = <<>> THEN <<>>
    ELSE InsertByScore(SortByScore(SubSeq(similarities, 1, Len(similarities) - 1)),
                       similarities[Len(similarities)])

\* The similarity of every document to the query, in the order of
\* doc_vectors.
Scored(query_vec, vectors) ==
    [k \in 1..Len(vectors) |->
        [doc |-> vectors[k].doc,
         sim |-> cosine_similarity(vectors[k].vector, query_vec)]]

\* similarities: the (doc_id, similarity) pairs of the documents kept, those
\* with similarity > 0.
Kept(scored) == SelectSeq(scored, LAMBDA entry : FloatLess(Zero, entry.sim.val))

Pairs(kept) == [k \in 1..Len(kept) |-> [doc |-> kept[k].doc, score |-> kept[k].sim.val]]

\* The ranking of the scored documents; a division by zero in a similarity
\* ends the call with its exception.
Ranking(scored, n) ==
    IF \E k \in 1..Len(scored) : scored[k].sim.status # "ok"
    THEN [status |-> "ZeroDivisionError", result |-> <<>>]
    ELSE [status |-> "ok", result |-> Slice0(SortByScore(Pairs(Kept(scored))), 0, n)]

vector_space_retrieval(query_vec, vectors, n) == Ranking(Scored(query_vec, vectors), n)

(***************************************************************************)
(* The ranking script: main loads inverted_index.json, computes the        *)
(* document lengths and the document vectors, builds the vector of a query *)
(* and ranks the documents.  main hands build_query_vector the terms of a  *)
(* query that the index holds and ranks with top_n = 20; the model calls   *)
(* the two functions with any short list of terms, the empty one and       *)
(* absent terms included, and any cutoff up to MaxTopN.                    *)
(***************************************************************************)
InitRank ==
    /\ tokenized_dir \in {Directory(c) : c \in GenericCorpora \cup {ExampleCorpus}}
    /\ files = SortedSeq({k \in DOMAIN tokenized_dir : tokenized_dir[k].txt})
    /\ nread = Len(files)
    /\ inverted_index = ReadFiles(<<>>, tokenized_dir, files, 0)
    /\ sorted_inverted_index = build_inverted_index(tokenized_dir, files)
    /\ dictionary = build_dictionary(sorted_inverted_index)
    /\ pc = "load_index"
    /\ IdleMerge
    /\ IdleCodec
    /\ IdleSearch
    /\ IdleReaders
    /\ IdleRank
    /\ IdleBlock

LoadRankIndex ==
    /\ pc = "load_index"
    /\ index' = simplified_index(sorted_inverted_index)
    /\ pc' = "calculate_doc_lengths"
    /\ UNCHANGED <<mergeVars, codecVars, indexVars, postings, readerVars, rankVars,
                   blockVars>>

CalculateDocLengths ==
    /\ pc = "calculate_doc_lengths"
    /\ doc_lengths' = calculate_doc_lengths(index)
    /\ pc' = "build_document_vectors"
    /\ UNCHANGED <<mergeVars, codecVars, indexVars, searchVars, readerVars,
                   doc_vectors, query_vector, top_n, blockVars>>

BuildDocumentVectors ==
    /\ pc = "build_document_vectors"
    /\ doc_vectors' = build_document_vectors(index, doc_lengths)
    /\ pc' = "build_query_vector"
    /\ UNCHANGED <<mergeVars, codecVars, indexVars, searchVars, readerVars,
                   doc_lengths, query_vector, top_n, blockVars>>

BuildQueryVector(query_terms) ==
    /\ pc = "build_query_vector"
    /\ query_vector' = build_query_vector(query_terms, index, Len(doc_lengths))
    /\ pc' = "retrieve"
    /\ UNCHANGED <<mergeVars, codecVars, indexVars, searchVars, readerVars,
                   doc_lengths, doc_vectors, top_n, blockVars>>

CosineSimilarity(k) ==
    /\ pc = "retrieve"
    /\ answer' = [op |-> "cosine_similarity", doc |-> doc_vectors[k].doc,
                  val |-> cosine_similarity(doc_vectors[k].vector, query_vector)]
    /\ pc' = "answered"
    /\ UNCHANGED <<p1, p2, skip_idx1, skip_idx2, codecVars, indexVars, searchVars,
                   readerVars, rankVars, blockVars>>

VectorSpaceRetrieval(n) ==
    /\ pc = "retrieve"
    /\ top_n' = n
    /\ answer' = [op |-> "vector_space_retrieval",
                  val |-> vector_space_retrieval(query_vector, doc_vectors, n)]
    /\ pc' = "answered"
    /\ UNCHANGED <<p1, p2, skip_idx1, skip_idx2, codecVars, indexVars, searchVars,
                   readerVars, doc_lengths, doc_vectors, query_vector, blockVars>>

NextRank ==
    \/ LoadRankIndex
    \/ CalculateDocLengths
    \/ BuildDocumentVectors
    \/ \E query_terms \in PhrasesUpTo(MaxQueryLen) : BuildQueryVector(query_terms)
    \/ \E k \in 1..Len(doc_vectors) : CosineSimilarity(k)
    \/ \E n \in 0..MaxTopN : VectorSpaceRetrieval(n)

SpecRank == InitRank /\ [][NextRank]_vars

\* The similarity of document doc_id to the query.
ScoreOf(doc_id) ==
    cosine_similarity(doc_vectors[KeyIndex(doc_vectors, "doc", doc_id)].vector,
                      query_vector).val

\* The documents of doc_vectors that a ranking does not hold.
Omitted(result) ==
    {doc_vectors[k].doc : k \in 1..Len(doc_vectors)} \ {result[k].doc : k \in 1..Len(result)}

\* C16: vector_space_retrieval returns at most top_n (document, score) pairs,
\* every returned score is > 0, the scores are in non-increasing order, and
\* no omitted document has a score greater than a returned one.
C16_RankingTopNPositiveSorted ==
    answer.op = "vector_space_retrieval"
        => /\ answer.val.status = "ok"
           /\ LET result == answer.val.result
              IN /\ Len(result) <= top_n
                 /\ \A k \in 1..Len(result) :
                       /\ KeyIndex(doc_vectors, "doc", result[k].doc) # 0
                       /\ result[k].score = ScoreOf(result[k].doc)
                       /\ FloatLess(Zero, result[k].score)
                 /\ \A k \in 1..(Len(result) - 1) :
                       ~FloatLess(result[k].score, result[k + 1].score)
                 /\ \A doc \in Omitted(result) : \A k \in 1..Len(result) :
                       ~FloatLess(result[k].score, ScoreOf(doc))

\* Two matching documents of different similarity, the better one inserted
\* last, and a cutoff of one: the ranking holds the better one only.
C16_Witness ==
    /\ answer.op = "vector_space_retrieval"
    /\ top_n = 1
    /\ Len(answer.val.result) = 1
    /\ \E i \in 1..Len(doc_vectors) :
          /\ FloatLess(Zero, ScoreOf(doc_vectors[i].doc))
          /\ \E j \in (i + 1)..Len(doc_vectors) :
                /\ FloatLess(ScoreOf(doc_vectors[i].doc), ScoreOf(doc_vectors[j].doc))
                /\ answer.val.result[1].doc = doc_vectors[j].doc


\* C17: in the ranking, documents of equal similarity are ordered by document
\* id ascending, whatever the insertion order of doc_vectors, and the top-N
\* cut between tied documents keeps the smaller document ids.
C17_TiesByDocIdAscending ==
    (answer.op = "vector_space_retrieval" /\ answer.val.status = "ok")
        => LET result == answer.val.result
           IN /\ \A k \in 1..(Len(result) - 1) :
                    FloatEq(result[k].score, result[k + 1].score)
                       => result[k].doc < result[k + 1].doc
              /\ \A doc \in Omitted(result) : \A k \in 1..Len(result) :
                    FloatEq(result[k].score, ScoreOf(doc)) => result[k].doc < doc

\* Every weight of the vector is zero (the empty vector included): the norm
\* of the vector is zero.
ZeroNorm(vector) == \A k \in 1..Len(vector) : IsZero(vector[k].weight)

\* C18: cosine_similarity returns 0, without a division fault, whenever the
\* document vector or the query vector has zero norm (an empty vector or all
\* weights 0), and such a document is not in the ranking.
C18_ZeroNormGivesZero ==
    /\ (/\ answer.op = "cosine_similarity"
        /\ \/ ZeroNorm(doc_vectors[KeyIndex(doc_vectors, "doc", answer.doc)].vector)
           \/ ZeroNorm(query_vector))
          => (answer.val.status = "ok" /\ IsZero(answer.val.val))
    /\ answer.op = "vector_space_retrieval"
          => /\ answer.val.status = "ok"
             /\ \A k \in 1..Len(answer.val.result) :
                   /\ ~ZeroNorm(query_vector)
                   /\ ~ZeroNorm(doc_vectors[
                          KeyIndex(doc_vectors, "doc", answer.val.result[k].doc)].vector)

\* A ranking over a document whose weights are all zero (its terms are in
\* every document) and a matching document: the matching document is
\* ranked, the zero-norm one is left out.
C18_Witness ==
    /\ answer.op = "vector_space_retrieval"
    /\ Len(doc_vectors) = 2
    /\ ~ZeroNorm(query_vector)
    /\ top_n = 2
    /\ Len(answer.val.result) = 1
    /\ \E i \in 1..2 :
          /\ doc_vectors[i].vector # <<>>
          /\ ZeroNorm(doc_vectors[i].vector)
          /\ answer.val.result[1].doc = doc_vectors[3 - i].doc

\* cosine_similarity called with the empty query vector, or with the vector
\* of a query of absent terms, on a document of non-zero norm returned 0.
C18_WitnessZeroQuery ==
    /\ answer.op = "cosine_similarity"
    /\ ~ZeroNorm(doc_vectors[KeyIndex(doc_vectors, "doc", answer.doc)].vector)
    /\ ZeroNorm(query_vector)
    /\ answer.val = [status |-> "ok", val |-> Zero]


(***************************************************************************)
(* src/4_2_2.py: the blocking codec of the dictionary.                     *)
(***************************************************************************)
\* struct.pack("<H", x) and its inverse at the 0-based position i.
U16LE(x) == <<x % 256, (x \div 256) % 256>>
U16At(data, i) == data[i + 1] + 256 * data[i + 2]

\* bytes.decode("utf-8", errors="replace") for bytes that hold one- and
\* two-byte forms and invalid bytes: a byte that starts no valid form is
\* replaced by U+FFFD.
RECURSIVE Utf8DecodeReplace(_)
Utf8DecodeReplace(bytes) ==
    IF bytes = <<>> THEN <<>>
    ELSE LET b == Head(bytes)
         IN IF b < 128 THEN <<b>> \o Utf8DecodeReplace(Tail(bytes))
            ELSE IF b >= 194 /\ b < 224 /\ Len(bytes) >= 2
                    /\ bytes[2] >= 128 /\ bytes[2] < 192
                 THEN <<(b - 192) * 64 + (bytes[2] - 128)>>
                          \o Utf8DecodeReplace(SubSeq(bytes, 3, Len(bytes)))
                 ELSE <<65533>> \o Utf8DecodeReplace(Tail(bytes))

\* grouped[group_name] = {...}: a new key goes last, a known key keeps its place.
PutGroup(grouped, grp) ==
    IF KeyIndex(grouped, "name", grp.name) = 0 THEN Append(grouped, grp)
    ELSE [grouped EXCEPT ![KeyIndex(grouped, "name", grp.name)] = grp]

\* The grouping loop taking the offset of the group's last term instead of
\* its first.
RECURSIVE group_loop_last_offset(_, _, _, _, _)
group_loop_last_offset(dict, terms, bs, i, grouped) ==
    IF i >= Len(terms) THEN grouped
    ELSE LET group_terms == Slice0(terms, i, i + 4)
             lengths == [k \in 1..Min(3, Len(group_terms)) |-> dict[group_terms[k]].length]
         IN group_loop_last_offset(dict, terms, bs, i + bs,
                       PutGroup(grouped, [name |-> (i \div 4) + 1,
                                          terms |-> group_terms,
                                          offset |-> dict[group_terms[Len(group_terms)]].offset,
                                          lengths |-> lengths]))

\* for i in range(0, len(terms), block_size): the groups, named by i // 4 + 1.
RECURSIVE group_loop(_, _, _, _, _)
group_loop(dict, terms, bs, i, grouped) ==
    IF i >= Len(terms) THEN grouped
    ELSE LET group_terms == Slice0(terms, i, i + 4)
             lengths == [k \in 1..Min(3, Len(group_terms)) |-> dict[group_terms[k]].length]
         IN group_loop(dict, terms, bs, i + bs,
                       PutGroup(grouped, [name |-> (i \div 4) + 1,
                                          terms |-> group_terms,
                                          offset |-> dict[group_terms[1]].offset,
                                          lengths |-> lengths]))

\* The term slots without the empty strings that fill a short group.
RECURSIVE write_terms_no_padding(_, _)
write_terms_no_padding(group_terms, k) ==
    IF k >= Len(group_terms) THEN <<>>
    ELSE LET t_bytes == Utf8Encode(group_terms[k + 1])
         IN (U16LE(Len(t_bytes)) \o t_bytes) \o write_terms_no_padding(group_terms, k + 1)

\* The four term slots of a group, from slot k (0-based) on.
RECURSIVE write_terms(_, _)
write_terms(group_terms, k) ==
    IF k >= 4 THEN <<>>
    ELSE LET t_bytes == IF k < Len(group_terms) THEN Utf8Encode(group_terms[k + 1])
                        ELSE <<>>
         IN (U16LE(Len(t_bytes)) \o t_bytes) \o write_terms(group_terms, k + 1)

RECURSIVE write_lengths(_, _)
write_lengths(lengths, k) ==
    IF k >= 3 THEN <<>>
    ELSE (IF k < Len(lengths) THEN U32LE(lengths[k + 1]) ELSE U32LE(0))
             \o write_lengths(lengths, k + 1)

\* The length header and the chunk of each group, in the order of grouped.
RECURSIVE write_groups(_, _, _)
write_groups(grouped, k, file) ==
    IF k > Len(grouped) THEN [status |-> "ok", exc |-> "", file |-> file]
    ELSE LET g == grouped[k]
         IN IF ~FitsU32(g.offset) \/ \E n \in 1..Len(g.lengths) : ~FitsU32(g.lengths[n])
            THEN [status |-> "raise", exc |-> "struct.error", file |-> file]
            ELSE LET chunk == (write_terms(g.terms, 0) \o U32LE(g.offset))
                                  \o write_lengths(g.lengths, 0)
                 IN write_groups(grouped, k + 1, (file \o U32LE(Len(chunk))) \o chunk)

blocking_compressed(dict, bs) ==
    write_groups(group_loop(dict, SortedStrs(DOMAIN dict), bs, 0, <<>>), 1, <<>>)

\* The four term slots read from the group's buffer, from position bpos on.
RECURSIVE read_terms(_, _, _, _)
read_terms(buf, bpos, n, terms) ==
    IF n = 0 THEN [status |-> "ok", bpos |-> bpos, terms |-> terms]
    ELSE IF bpos + 2 > Len(buf) THEN [status |-> "raise", bpos |-> bpos, terms |-> terms]
    ELSE LET l == U16At(buf, bpos)
             t_bytes == Slice0(buf, bpos + 2, bpos + 2 + l)
             term == IF Utf8Valid(t_bytes) THEN Utf8Decode(t_bytes)
                     ELSE Utf8DecodeReplace(t_bytes)
         IN read_terms(buf, bpos + 2 + Len(t_bytes), n - 1, Append(terms, term))

RECURSIVE decompress_loop(_, _, _)
decompress_loop(data, pos, result) ==
    LET header == Slice0(data, pos, pos + 4)
    IN IF header = <<>> THEN [status |-> "ok", exc |-> "", result |-> result]
       ELSE IF Len(header) < 4
       THEN [status |-> "raise", exc |-> "struct.error", result |-> result]
       ELSE LET group_len == U32At(data, pos)
                buf == Slice0(data, pos + 4, pos + 4 + group_len)
                t == read_terms(buf, 0, 4, <<>>)
            IN IF t.status # "ok" \/ t.bpos + 16 > Len(buf)
               THEN [status |-> "raise", exc |-> "struct.error", result |-> result]
               ELSE decompress_loop(data, pos + 4 + Len(buf),
                        Append(result,
                               [terms |-> t.terms,
                                offset |-> U32At(buf, t.bpos),
                                lengths |-> <<U32At(buf, t.bpos + 4), U32At(buf, t.bpos + 8),
                                              U32At(buf, t.bpos + 12)>>]))

\* An exception leaves the caller without the groups read so far.
blocking_decompressed(data) == decompress_loop(data, 0, <<>>)

(***************************************************************************)
(* src/lab1/5_A_2.py: load_frontcoded_index.  It reads the two header      *)
(* fields as 16-bit values ("<HH") and leaves its loop on any exception.   *)
(***************************************************************************)
\* postings[term] = []
PutTerm(post, term) ==
    IF HasTerm(post, term)
    THEN [post EXCEPT ![KeyIndex(post, "term", term)] = [term |-> term, docs |-> <<>>]]
    ELSE Append(post, [term |-> term, docs |-> <<>>])

RECURSIVE load_loop(_, _, _, _)
load_loop(data, i, base, post) ==
    IF i < Len(data)
    THEN IF i + 4 > Len(data) THEN post
         ELSE LET prefix_len == U16At(data, i)
                  suffix_len == U16At(data, i + 2)
                  raw == Slice0(data, i + 4, i + 4 + suffix_len)
                  k == i + 4 + suffix_len
              IN IF ~Utf8Valid(raw) \/ k + 8 > Len(data) THEN post
                 ELSE LET suffix == Utf8Decode(raw)
                          term == IF prefix_len = 0 THEN suffix
                                  ELSE Slice0(base, 0, prefix_len) \o suffix
                          newbase == IF prefix_len = 0 THEN suffix ELSE base
                      IN load_loop(data, k + 8, newbase, PutTerm(post, term))
    ELSE post

\* The function returns the mapping (and the load time): no error is reported.
load_frontcoded_index(data) == [status |-> "ok", postings |-> load_loop(data, 0, <<>>, <<>>)]

(***************************************************************************)
(* The stored dictionary: both codecs write their file, the files are kept *)
(* on disk, where a file may lose its end or have a byte of a stored term  *)
(* overwritten by 0xFF, and then the three readers run.                    *)
(***************************************************************************)
\* The 1-based positions of the suffix bytes of a front-coded file.
RECURSIVE FrontTermPositions(_, _)
FrontTermPositions(data, i) ==
    IF i + 2 > Len(data) THEN {}
    ELSE ((i + 3)..(i + 2 + data[i + 2]))
             \cup FrontTermPositions(data, i + 2 + data[i + 2] + 8)

\* The 1-based positions of the term bytes of a blocking file.
RECURSIVE GroupTermPositions(_, _, _)
GroupTermPositions(data, bpos, n) ==
    IF n = 0 THEN {}
    ELSE ((bpos + 3)..(bpos + 2 + U16At(data, bpos)))
             \cup GroupTermPositions(data, bpos + 2 + U16At(data, bpos), n - 1)

RECURSIVE BlockTermPositions(_, _)
BlockTermPositions(data, pos) ==
    IF pos + 4 > Len(data) THEN {}
    ELSE GroupTermPositions(data, pos + 4, 4)
             \cup BlockTermPositions(data, pos + 4 + U32At(data, pos))

InitStored ==
    /\ d \in Dictionaries
    /\ block_size \in 1..MaxBlockSize
    /\ fc_file = <<>>
    /\ fc_result = None
    /\ block_file = <<>>
    /\ groups = None
    /\ fc_postings = None
    /\ pc = "encode"
    /\ IdleMerge
    /\ IdleIndex
    /\ IdleSearch
    /\ IdleReaders
    /\ IdleRank

BlockingCompressed ==
    /\ pc = "decode"
    /\ LET w == blocking_compressed(d, block_size)
       IN /\ block_file' = w.file
          /\ pc' = IF w.status = "ok" THEN "stored" ELSE "raised"
    /\ UNCHANGED <<groups, fc_postings, mergeVars, codecVars, indexVars, searchVars,
                   readerVars, rankVars>>

FilesIntact ==
    /\ pc = "stored"
    /\ pc' = "load_front"
    /\ UNCHANGED <<mergeVars, codecVars, indexVars, searchVars, readerVars, rankVars,
                   blockVars>>

TruncateFrontcoded(n) ==
    /\ pc = "stored"
    /\ n < Len(fc_file)
    /\ fc_file' = SubSeq(fc_file, 1, n)
    /\ pc' = "load_front"
    /\ UNCHANGED <<d, block_size, fc_result, mergeVars, indexVars, searchVars,
                   readerVars, rankVars, blockVars>>

CorruptFrontcodedTerm(pos) ==
    /\ pc = "stored"
    /\ pos \in FrontTermPositions(fc_file, 0)
    /\ fc_file' = [fc_file EXCEPT ![pos] = 255]
    /\ pc' = "load_front"
    /\ UNCHANGED <<d, block_size, fc_result, mergeVars, indexVars, searchVars,
                   readerVars, rankVars, blockVars>>

TruncateBlocking(n) ==
    /\ pc = "stored"
    /\ n < Len(block_file)
    /\ block_file' = SubSeq(block_file, 1, n)
    /\ pc' = "load_front"
    /\ UNCHANGED <<groups, fc_postings, mergeVars, codecVars, indexVars, searchVars,
                   readerVars, rankVars>>

CorruptBlockingTerm(pos) ==
    /\ pc = "stored"
    /\ pos \in BlockTermPositions(block_file, 0)
    /\ block_file' = [block_file EXCEPT ![pos] = 255]
    /\ pc' = "load_front"
    /\ UNCHANGED <<groups, fc_postings, mergeVars, codecVars, indexVars, searchVars,
                   readerVars, rankVars>>

FrontCodingDecodeStored ==
    /\ pc = "load_front"
    /\ fc_result' = front_coding_decode(fc_file)
    /\ pc' = "load_index"
    /\ UNCHANGED <<d, block_size, fc_file, mergeVars, indexVars, searchVars,
                   readerVars, rankVars, blockVars>>

LoadFrontcodedIndex ==
    /\ pc = "load_index"
    /\ fc_postings' = load_frontcoded_index(fc_file)
    /\ pc' = "load_block"
    /\ UNCHANGED <<block_file, groups, mergeVars, codecVars, indexVars, searchVars,
                   readerVars, rankVars>>

BlockingDecompressed ==
    /\ pc = "load_block"
    /\ groups' = blocking_decompressed(block_file)
    /\ pc' = "loaded"
    /\ UNCHANGED <<block_file, fc_postings, mergeVars, codecVars, indexVars, searchVars,
                   readerVars, rankVars>>

NextStored ==
    \/ FrontCodingBinary
    \/ BlockingCompressed
    \/ FilesIntact
    \/ \E n \in 0..Len(fc_file) : TruncateFrontcoded(n)
    \/ \E pos \in 1..Len(fc_file) : CorruptFrontcodedTerm(pos)
    \/ \E n \in 0..Len(block_file) : TruncateBlocking(n)
    \/ \E pos \in 1..Len(block_file) : CorruptBlockingTerm(pos)
    \/ FrontCodingDecodeStored
    \/ LoadFrontcodedIndex
    \/ BlockingDecompressed

SpecStored == InitStored /\ [][NextStored]_vars


(***************************************************************************)
(* What the stored files were before the damage, and what a caller of a    *)
(* reader gets.  A reader that raises hands nothing to its caller: the     *)
(* result field of a "raise" record is the local list the exception        *)
(* discards.                                                               *)
(***************************************************************************)
WrittenFront == front_coding_binary(d, block_size).file
WrittenBlock == blocking_compressed(d, block_size).file

FrontTermDamaged == Len(fc_file) = Len(WrittenFront) /\ fc_file # WrittenFront
BlockTermDamaged == Len(block_file) = Len(WrittenBlock) /\ block_file # WrittenBlock
FrontTruncated == Len(fc_file) < Len(WrittenFront)
BlockTruncated == Len(block_file) < Len(WrittenBlock)

\* The decoder returned, and its list has as many entries as the undamaged
\* file gives.
ReturnedEveryRecord(r, intact) ==
    /\ r.status = "ok"
    /\ intact.status = "ok"
    /\ Len(r.result) = Len(intact.result)

\* The reader came back as from a complete file: a plain return.
SilentlyIncomplete(r) == r.status = "ok"

\* The reader raised after it had decoded records, which the caller never sees.
LostDecodedRecords(r) == r.status = "raise" /\ r.result # <<>>

\* C19: when a byte of a stored term is not valid UTF-8, front_coding_decode and
\* blocking_decompressed each substitute the undecodable bytes and return an
\* entry for every record of the file instead of aborting the scan.
C19_DecodersSubstituteUndecodableBytes ==
    pc = "loaded" =>
        /\ FrontTermDamaged =>
               ReturnedEveryRecord(fc_result, front_coding_decode(WrittenFront))
        /\ BlockTermDamaged =>
               ReturnedEveryRecord(groups, blocking_decompressed(WrittenBlock))

\* C20: when a dictionary file is truncated, each of front_coding_decode,
\* blocking_decompressed and load_frontcoded_index signals the corruption and
\* still delivers the records decoded before it: none returns as if the file
\* were complete and none loses the records it had decoded.
C20_TruncatedFileGivesPartialAndError ==
    pc = "loaded" =>
        /\ FrontTruncated =>
               /\ ~SilentlyIncomplete(fc_result) /\ ~LostDecodedRecords(fc_result)
               /\ ~SilentlyIncomplete(fc_postings)
        /\ BlockTruncated =>
               ~SilentlyIncomplete(groups) /\ ~LostDecodedRecords(groups)


(***************************************************************************)
(* The two readers of dictionary_frontcoded.bin on the file as written.    *)
(***************************************************************************)
\* The terms front_coding_decode returned: the first component of each tuple.
DecodedTerms(r) == {r.result[k][1] : k \in 1..Len(r.result)}

\* The keys of the dict load_frontcoded_index returned.
LoadedTerms(r) == {r.postings[k].term : k \in 1..Len(r.postings)}

FrontFileAsWritten == fc_file = WrittenFront

\* C21: on the file front_coding_binary wrote, load_frontcoded_index recovers
\* the same set of terms as front_coding_decode, which is the term set of the
\* dictionary: both readers use the one-byte prefix_len and suffix_len layout.
C21_ReadersShareRecordLayout ==
    pc = "loaded" /\ FrontFileAsWritten /\ fc_result.status = "ok" =>
        /\ DecodedTerms(fc_result) = DOMAIN d
        /\ LoadedTerms(fc_postings) = DecodedTerms(fc_result)


(***************************************************************************)
(* The blocking script of src/4_2_2.py: blocking_compressed writes         *)
(* dictionary_blocking.bin from dictionary.json and blocking_decompressed  *)
(* reads it back.  The dictionaries are those of the front-coding script   *)
(* and the ones build_dictionary writes, whose offsets are the running sum *)
(* of the lengths over the sorted terms.                                   *)
(***************************************************************************)
DefaultBlockSize == 4   \* block_size=4 in the signature of blocking_compressed
LengthUnits == {7, 257}

\* offset = 0; for term in sorted_terms: {"offset": offset, "length": length};
\* offset += length.  The k-th sorted term has length unit * k.
ContiguousDictionary(T, unit) ==
    LET sorted_terms == SortedStrs(T)
        lens == [k \in 1..Len(sorted_terms) |-> unit * k]
    IN [t \in T |->
           LET k == CHOOSE n \in 1..Len(sorted_terms) : sorted_terms[n] = t
           IN [offset |-> SumSeq(SubSeq(lens, 1, k - 1)), length |-> lens[k]]]

ContiguousDictionaries ==
    {ContiguousDictionary(T, unit) :
         T \in {S \in SUBSET Terms : Cardinality(S) <= MaxBlockTerms},
         unit \in LengthUnits}

BlockSizes == (1..MaxBlockSize) \cup {DefaultBlockSize, DefaultBlockSize + 1}

InitBlock ==
    /\ d \in Dictionaries \cup ContiguousDictionaries
    /\ block_size \in BlockSizes
    /\ fc_file = <<>>
    /\ fc_result = None
    /\ block_file = <<>>
    /\ groups = None
    /\ fc_postings = None
    /\ pc = "block_encode"
    /\ IdleMerge
    /\ IdleIndex
    /\ IdleSearch
    /\ IdleReaders
    /\ IdleRank

BlockingCompressedCall ==
    /\ pc = "block_encode"
    /\ LET w == blocking_compressed(d, block_size)
       IN /\ block_file' = w.file
          /\ pc' = IF w.status = "ok" THEN "block_decode" ELSE "raised"
    /\ UNCHANGED <<groups, fc_postings, mergeVars, codecVars, indexVars, searchVars,
                   readerVars, rankVars>>

BlockingDecompressedCall ==
    /\ pc = "block_decode"
    /\ groups' = blocking_decompressed(block_file)
    /\ pc' = "block_done"
    /\ UNCHANGED <<block_file, fc_postings, mergeVars, codecVars, indexVars, searchVars,
                   readerVars, rankVars>>

NextBlock == BlockingCompressedCall \/ BlockingDecompressedCall

SpecBlock == InitBlock /\ [][NextBlock]_vars

\* The non-empty term slots of the groups, concatenated in file order.
RECURSIVE NonEmptySlots(_)
NonEmptySlots(gs) ==
    IF gs = <<>> THEN <<>>
    ELSE SelectSeq(Head(gs).terms, LAMBDA t : t # <<>>) \o NonEmptySlots(Tail(gs))

\* C22: for every block_size >= 1 and every dictionary (of non-empty terms),
\* the non-empty term slots written by blocking_compressed and read back by
\* blocking_decompressed are, in file order, exactly the sorted term list of the
\* dictionary, each term once.
C22_BlockingHonoursBlockSize ==
    pc = "block_done" /\ <<>> \notin DOMAIN d =>
        /\ groups.status = "ok"
        /\ NonEmptySlots(groups.result) = SortedStrs(DOMAIN d)


\* terms[i:i+4] followed by empty strings up to 4 slots.
PaddedTerms(run) == run \o [k \in 1..(4 - Len(run)) |-> <<>>]

\* The lengths of the first three terms of the run, then zeros up to 3 fields.
PaddedLengths(dict, run) ==
    [k \in 1..3 |-> IF k <= Len(run) THEN dict[run[k]].length ELSE 0]

\* The g-th run of 4 consecutive sorted terms.
SortedRun(dict, g) == Slice0(SortedStrs(DOMAIN dict), 4 * (g - 1), 4 * g)

\* C23: at the default block size 4, blocking_decompressed of the file written
\* by blocking_compressed yields one group per run of 4 consecutive sorted
\* terms, in order, each with 4 term slots (the run, then empty strings), the
\* offset of the run's first term, and 3 length fields holding the lengths of
\* the run's first three terms, then zeros.
C23_BlockingRoundTripAtDefault ==
    pc = "block_done" /\ block_size = DefaultBlockSize =>
        /\ groups.status = "ok"
        /\ Len(groups.result) = (Cardinality(DOMAIN d) + 3) \div 4
        /\ \A g \in 1..Len(groups.result) :
               LET run == SortedRun(d, g)
               IN /\ groups.result[g].terms = PaddedTerms(run)
                  /\ groups.result[g].offset = d[run[1]].offset
                  /\ groups.result[g].lengths = PaddedLengths(d, run)

\* A dictionary of five terms gives a full group and a short one.
C23_Witness ==
    /\ pc = "block_done"
    /\ block_size = DefaultBlockSize
    /\ Cardinality(DOMAIN d) = 5
    /\ Len(groups.result) = 2
    /\ groups.result[2].terms[2] = <<>>
    /\ groups.result[2].lengths[2] = 0

\* Offsets as build_dictionary assigns them: each sorted term starts where the
\* previous one ends.
ContiguousOffsets(dict) ==
    LET sorted_terms == SortedStrs(DOMAIN dict)
    IN \A k \in 1..Len(sorted_terms) :
           dict[sorted_terms[k]].offset =
               IF k = 1 THEN 0
               ELSE dict[sorted_terms[k - 1]].offset + dict[sorted_terms[k - 1]].length

\* C30: for a dictionary with contiguous offsets encoded at block size 4, the
\* term in slot k of a decoded group has offset equal to the group's offset
\* plus the sum of the group's first k-1 length fields.
C30_OffsetsRecoverableFromGroup ==
    pc = "block_done" /\ block_size = DefaultBlockSize /\ ContiguousOffsets(d) =>
        /\ groups.status = "ok"
        /\ \A g \in 1..Len(groups.result) :
               \A k \in 1..Len(SortedRun(d, g)) :
                   d[groups.result[g].terms[k]].offset =
                       groups.result[g].offset
                           + SumSeq(SubSeq(groups.result[g].lengths, 1, k - 1))

\* A second group exists and the first has a term in its fourth slot, whose
\* offset takes all three length fields.
C30_Witness ==
    /\ pc = "block_done"
    /\ block_size = DefaultBlockSize
    /\ ContiguousOffsets(d)
    /\ Len(groups.result) = 2
    /\ groups.result[2].offset > 0
    /\ d[groups.result[1].terms[4]].offset = SumSeq(groups.result[1].lengths)


(***************************************************************************)
(* The two skip-pointer builders on one posting list: build_skip_pointers  *)
(* of src/lab1/3.py and SkipListIndex of src/lab1/5_A_4.py with the step   *)
(* of the "sqrt" strategy.                                                 *)
(***************************************************************************)
\* The sorted posting lists: every list over 1..MaxDocId and the lists
\* 1, 2, .., n up to MaxListLen ids.
PointerLists == PostingLists \cup {[k \in 1..n |-> k] : n \in 0..MaxListLen}

InitPointers ==
    /\ p1 \in PointerLists
    /\ p2 = <<>>
    /\ skip_idx1 = None
    /\ skip_idx2 = None
    /\ answer = NoAnswer
    /\ pc = "pointers"
    /\ IdleCodec
    /\ IdleIndex
    /\ IdleSearch
    /\ IdleReaders
    /\ IdleRank
    /\ IdleBlock

\* skips = build_skip_pointers(sorted_docs)
BuildSkipPointers ==
    /\ pc = "pointers"
    /\ answer' = [op |-> "build_skip_pointers", val |-> build_skip_pointers(p1)]
    /\ pc' = "skiplist"
    /\ UNCHANGED <<p1, p2, skip_idx1, skip_idx2, codecVars, indexVars, searchVars,
                   readerVars, rankVars, blockVars>>

\* skip_indexes[term] = SkipListIndex(term, doc_ids, max(1, int(math.sqrt(n))))
BuildSqrtSkipList ==
    /\ pc = "skiplist"
    /\ skip_idx1' = SkipListIndex("t1", p1, StrategyStep("sqrt", Len(p1)))
    /\ pc' = "built"
    /\ UNCHANGED <<p1, p2, skip_idx2, answer, codecVars, indexVars, searchVars,
                   readerVars, rankVars, blockVars>>

NextPointers == BuildSkipPointers \/ BuildSqrtSkipList

SpecPointers == InitPointers /\ [][NextPointers]_vars

\* The number of stride starts i = 0, step, 2*step, .. with i + step < n.
StridesWithNext(n, step) == Cardinality({k \in 0..n : k * step + step < n})

\* C24: build_skip_pointers on a list of length n uses step = floor(sqrt(n)),
\* emits nothing when the step is below 2, and otherwise one pointer from each
\* stride start i to index i + step with i + step < n, with jump = step; a
\* 100-element list gets step 10 and exactly 9 pointers.
C24_BuildSkipPointers ==
    answer.op = "build_skip_pointers" =>
        LET n == Len(p1)
            step == ISqrt(n)
            skips == answer.val
        IN /\ step < 2 => skips = <<>>
           /\ step >= 2 =>
                  /\ Len(skips) = StridesWithNext(n, step)
                  /\ \A k \in 1..Len(skips) :
                         skips[k] = [from |-> p1[(k - 1) * step + 1],
                                     to |-> p1[k * step + 1],
                                     jump |-> step]
           /\ n = 100 => Len(skips) = 9 /\ \A k \in 1..9 : skips[k].jump = 10

C24_Witness ==
    /\ answer.op = "build_skip_pointers"
    /\ Len(p1) = 100
    /\ Len(answer.val) = 9
    /\ answer.val[9] = [from |-> 81, to |-> 91, jump |-> 10]


\* The 0-based index of value v in the strictly increasing list s.
IndexOf(s, v) == (CHOOSE k \in 1..Len(s) : s[k] = v) - 1

\* Every pointer of build_skip_pointers goes forward and the targets increase
\* with the sources.
PointersForward(posting_list, skips) ==
    /\ \A k \in 1..Len(skips) :
           IndexOf(posting_list, skips[k].to) > IndexOf(posting_list, skips[k].from)
    /\ \A k \in 1..Len(skips), m \in 1..Len(skips) :
           IndexOf(posting_list, skips[k].from) < IndexOf(posting_list, skips[m].from)
               => IndexOf(posting_list, skips[k].to) < IndexOf(posting_list, skips[m].to)

\* The same for the {source index: target index} dict of SkipListIndex.
SkipDictForward(skip_pointers) ==
    /\ \A i \in DOMAIN skip_pointers : skip_pointers[i] > i
    /\ \A i \in DOMAIN skip_pointers, j \in DOMAIN skip_pointers :
           i < j => skip_pointers[i] < skip_pointers[j]

\* C25: for build_skip_pointers and for SkipListIndex with the sqrt strategy,
\* every pointer's target index is greater than its source index, targets
\* increase with sources, and a list whose step is 1 (length 1 to 3), a
\* one-element list included, has no pointers.
C25_SkipPointerInvariant ==
    pc = "built" =>
        /\ PointersForward(p1, answer.val)
        /\ SkipDictForward(skip_idx1.skip_pointers)
        /\ Len(p1) \in 1..3 =>
               /\ answer.val = <<>>
               /\ DOMAIN skip_idx1.skip_pointers = {}


\* The sorted list of the documents that every term of ts lists; a term the
\* mapping lacks lists none.
CommonDocs(post, ts) ==
    SortedSeq({doc \in 1..MaxDocs :
                  \A n \in 1..Len(ts) :
                      HasTerm(post, ts[n]) /\ doc \in Range(DocsOf(post, ts[n]))})

\* C26: a multi-term AND does not depend on the chaining order: low-DF-first
\* (q1_strategy1, and search_and with its early exit) and high-DF-first
\* (q1_strategy2) return the same list, the intersection of all operand lists.
C26_AndOrderIndependent ==
    /\ answer.op \in {"q1_strategy1", "q1_strategy2"} =>
           /\ answer.val = CommonDocs(answer.before, q1_terms)
           /\ q1_strategy1(answer.before).result = q1_strategy2(answer.before).result
    /\ answer.op = "search_and" =>
           /\ answer.val = CommonDocs(postings, answer.terms)
           /\ answer.terms = q1_terms =>
                  answer.val = q1_strategy2(postings).result

\* All five terms are present with lists of different lengths, so the two
\* orders chain different lists first, and a document survives.
C26_Witness ==
    /\ answer.op = "q1_strategy1"
    /\ \A n \in 1..Len(q1_terms) : HasTerm(answer.before, q1_terms[n])
    /\ DocsOf(answer.before, new) = <<1, 2>>
    /\ DocsOf(answer.before, group) = <<2>>
    /\ SortedByDF(answer.before, q1_terms) # SortedByDFReverse(answer.before, q1_terms)
    /\ answer.val = <<2>>


(***************************************************************************)
(* The index against the documents it was built from.                      *)
(***************************************************************************)
\* build_inverted_index has just returned: the index is in hand and the
\* dictionary is not built yet.
IndexReturned == pc = "dictionary"

\* The documents of the directory: its .txt entries.
Documents == {k \in DOMAIN tokenized_dir : tokenized_dir[k].txt}

\* The 0-based token indices at which term t occurs in document doc_id.
Occurrences(doc_id, t) ==
    LET words == tokenized_dir[doc_id].words
    IN SortedSeq({i \in 0..(Len(words) - 1) : words[i + 1] = t})

\* The postings of (t, doc_id) in the index: one per entry that names them.
PostingsFor(idx, t, doc_id) ==
    {<<k, n>> \in (1..Len(idx)) \X (DOMAIN tokenized_dir \cup {0}) :
        /\ idx[k].term = t
        /\ n \in 1..Len(idx[k].postings)
        /\ idx[k].postings[n].doc = doc_id}

IndexedTerms(idx) == {idx[k].term : k \in 1..Len(idx)}

\* C27: the index built by build_inverted_index has a posting (t, d) exactly
\* when t occurs in the token sequence of document d, and then the posting's
\* positions are exactly the 0-based token indices of t in d; a document with
\* no tokens, and an entry that is no document, appears in no posting list.
C27_IndexMatchesDocuments ==
    IndexReturned =>
        /\ \A k \in 1..Len(sorted_inverted_index) :
               /\ sorted_inverted_index[k].postings # <<>>
               /\ \A n \in 1..Len(sorted_inverted_index[k].postings) :
                      sorted_inverted_index[k].postings[n].doc \in Documents
        /\ \A doc_id \in Documents :
               \A t \in Vocabulary \cup IndexedTerms(sorted_inverted_index) :
                   LET ps == PostingsFor(sorted_inverted_index, t, doc_id)
                   IN IF Occurrences(doc_id, t) = <<>>
                      THEN ps = {}
                      ELSE /\ Cardinality(ps) = 1
                           /\ \A kn \in ps :
                                  sorted_inverted_index[kn[1]].postings[kn[2]].positions
                                      = Occurrences(doc_id, t)

\* One document has no tokens and the other holds a term at positions 0 and 2.
C27_Witness ==
    /\ IndexReturned
    /\ \E a \in Documents, b \in Documents :
           /\ tokenized_dir[a].words = <<>>
           /\ \E t \in Vocabulary :
                  /\ Occurrences(b, t) = <<0, 2>>
                  /\ \E kn \in PostingsFor(sorted_inverted_index, t, b) :
                         sorted_inverted_index[kn[1]].postings[kn[2]].positions = <<0, 2>>


\* C29: build_inverted_index returns the same index (term order, postings,
\* positions and skip pointers) for every order in which os.listdir hands
\* over the documents: whatever the order of files was, the index is the one
\* built from the documents in ascending order.
C29_BuildDeterministic ==
    IndexReturned =>
        sorted_inverted_index = build_inverted_index(tokenized_dir, SortedSeq(Documents))

\* The files were read in descending order, the accumulator met the terms in
\* an order that is not the sorted one, and a term has two postings.
C29_Witness ==
    /\ IndexReturned
    /\ files = <<2, 1>>
    /\ Len(inverted_index) = 2
    /\ StrLess(inverted_index[2].term, inverted_index[1].term)
    /\ \E k \in 1..Len(sorted_inverted_index) :
           Len(sorted_inverted_index[k].postings) = 2


(***************************************************************************)
(* The two intersections of src/lab1/5_A_4.py iteration by iteration: the  *)
(* cursor pairs (i, j) at which the loop body runs.                        *)
(***************************************************************************)
\* One iteration of intersect_without_skiplist's loop, or its exit.
noskip_step(f, doc_ids1, doc_ids2) ==
    IF f.i < Len(doc_ids1) /\ f.j < Len(doc_ids2)
    THEN IF doc_ids1[f.i + 1] = doc_ids2[f.j + 1]
         THEN [f EXCEPT !.answer = Append(@, doc_ids1[f.i + 1]), !.i = @ + 1, !.j = @ + 1]
         ELSE IF doc_ids1[f.i + 1] < doc_ids2[f.j + 1]
              THEN [f EXCEPT !.i = @ + 1]
              ELSE [f EXCEPT !.j = @ + 1]
    ELSE [f EXCEPT !.pc = "done"]

\* result = []; i, j = 0, 0
SweepStart == [IdleFrame EXCEPT !.pc = "loop"]

\* The skipping sweep run for at most `fuel` evaluations of its loop
\* condition: the frame it ends in and the cursor pairs of its iterations.
RECURSIVE SkipSweep(_, _, _, _, _)
SkipSweep(f, idx1, idx2, visited, fuel) ==
    IF f.pc = "done" \/ fuel = 0 THEN [frame |-> f, visited |-> visited]
    ELSE LET g == skiplist_step(f, idx1, idx2)
         IN SkipSweep(g, idx1, idx2,
                      IF g.pc = "done" THEN visited ELSE Append(visited, <<f.i, f.j>>),
                      fuel - 1)

RECURSIVE LinearSweep(_, _, _, _, _)
LinearSweep(f, doc_ids1, doc_ids2, visited, fuel) ==
    IF f.pc = "done" \/ fuel = 0 THEN [frame |-> f, visited |-> visited]
    ELSE LET g == noskip_step(f, doc_ids1, doc_ids2)
         IN LinearSweep(g, doc_ids1, doc_ids2,
                        IF g.pc = "done" THEN visited ELSE Append(visited, <<f.i, f.j>>),
                        fuel - 1)

\* Enough loop-condition evaluations for a sweep in which every iteration
\* moves a cursor forward: one per element of either list and one for the exit.
SweepFuel == Len(p1) + Len(p2) + 1

SkipRun == SkipSweep(SweepStart, skip_idx1, skip_idx2, <<>>, SweepFuel)
LinearRun == LinearSweep(SweepStart, p1, p2, <<>>, SweepFuel)

\* The cursor pairs in order, the final pair included: no cursor moves back
\* and each step moves at least one.
Advancing(run) ==
    LET path == Append(run.visited, <<run.frame.i, run.frame.j>>)
    IN \A k \in 1..(Len(path) - 1) :
           /\ path[k + 1][1] >= path[k][1]
           /\ path[k + 1][2] >= path[k][2]
           /\ path[k + 1] # path[k]

\* C28: intersect_with_skiplist terminates and takes no more loop iterations
\* than intersect_without_skiplist on the same lists: every iteration moves a
\* cursor forward and every cursor pair it visits is one the non-skipping
\* sweep visits.
C28_SkipSweepNoLongerThanLinear ==
    answer.op = "intersect_with_skiplist" =>
        /\ SkipRun.frame.pc = "done"
        /\ SkipRun.frame.answer = answer.val
        /\ LinearRun.frame.pc = "done"
        /\ LinearRun.frame.answer = intersect_without_skiplist(p1, p2)
        /\ Advancing(SkipRun)
        /\ Len(SkipRun.visited) <= Len(LinearRun.visited)
        /\ Range(SkipRun.visited) \subseteq Range(LinearRun.visited)

\* A jump was taken, the sweep is shorter than the linear one, and the lists
\* share a document.
C28_Witness ==
    /\ answer.op = "intersect_with_skiplist"
    /\ answer.val # <<>>
    /\ Len(SkipRun.visited) < Len(LinearRun.visited)
    /\ \E k \in 1..(Len(SkipRun.visited) - 1) :
           SkipRun.visited[k + 1][1] > SkipRun.visited[k][1] + 1

=============================================================================
